---- MODULE Spec2Model ----
(***************************************************************************)
(* A model of the Rust code generator of src/src/main.rs: the form state   *)
(* of CodeGenerator, its update handler (one action per Message variant),  *)
(* and the pure text functions that render the nine artifacts.             *)
(*                                                                         *)
(* Text is modelled by TLA+ strings.  A character outside ASCII cannot be  *)
(* written in a TLA+ string, so each one is spelled \u{hex} (the status    *)
(* messages and three comment lines of the templates).                     *)
(***************************************************************************)
EXTENDS Integers, Sequences, FiniteSets, TLC

(***************************************************************************)
(* The string methods of the Rust standard library that the code uses.     *)
(***************************************************************************)

\* The i-th character of s, as a string of length one.
CharAt(s, i) == SubSeq(s, i, i)

\* char::is_whitespace, on the characters a TLA+ string can hold.
IsWhitespace(c) == c \in {" ", "\t", "\n", "\r", "\f"}

UpperLetters ==
    <<"A", "B", "C", "D", "E", "F", "G", "H", "I", "J", "K", "L", "M",
      "N", "O", "P", "Q", "R", "S", "T", "U", "V", "W", "X", "Y", "Z">>

LowerLetters ==
    <<"a", "b", "c", "d", "e", "f", "g", "h", "i", "j", "k", "l", "m",
      "n", "o", "p", "q", "r", "s", "t", "u", "v", "w", "x", "y", "z">>

UpperSet == {UpperLetters[i] : i \in 1..26}

LowerSet == {LowerLetters[i] : i \in 1..26}

\* The lower-case letter of each upper-case letter, and the converse.
LowerOf == [c \in UpperSet |-> LowerLetters[CHOOSE i \in 1..26 : UpperLetters[i] = c]]

UpperOf == [c \in LowerSet |-> UpperLetters[CHOOSE i \in 1..26 : LowerLetters[i] = c]]

\* char::is_uppercase
is_uppercase(c) == c \in UpperSet

\* char::to_lowercase().next().unwrap()
to_lowercase(c) == IF c \in UpperSet THEN LowerOf[c] ELSE c

\* char::to_uppercase().collect::<String>()
to_uppercase(c) == IF c \in LowerSet THEN UpperOf[c] ELSE c

\* str::starts_with
starts_with(s, pat) == Len(pat) <= Len(s) /\ SubSeq(s, 1, Len(pat)) = pat

\* str::ends_with
ends_with(s, pat) ==
    Len(pat) <= Len(s) /\ SubSeq(s, Len(s) - Len(pat) + 1, Len(s)) = pat

\* str::contains
contains(s, pat) ==
    \E i \in 1..(Len(s) - Len(pat) + 1) : SubSeq(s, i, i + Len(pat) - 1) = pat

RECURSIVE trim_start(_)
\* str::trim_start
trim_start(s) ==
    IF Len(s) > 0 /\ IsWhitespace(CharAt(s, 1))
    THEN trim_start(SubSeq(s, 2, Len(s)))
    ELSE s

RECURSIVE trim_end(_)
\* str::trim_end
trim_end(s) ==
    IF Len(s) > 0 /\ IsWhitespace(CharAt(s, Len(s)))
    THEN trim_end(SubSeq(s, 1, Len(s) - 1))
    ELSE s

\* str::trim
trim(s) == trim_end(trim_start(s))

RECURSIVE trim_end_matches(_, _)
\* str::trim_end_matches: every repetition of the non-empty pat at the end is removed.
trim_end_matches(s, pat) ==
    IF ends_with(s, pat)
    THEN trim_end_matches(SubSeq(s, 1, Len(s) - Len(pat)), pat)
    ELSE s

RECURSIVE SplitFrom(_, _, _, _)
\* The pieces of s from position i on, cur being the piece collected so far.
SplitFrom(s, sep, i, cur) ==
    IF i > Len(s) THEN <<cur>>
    ELSE IF CharAt(s, i) = sep
         THEN <<cur>> \o SplitFrom(s, sep, i + 1, "")
         ELSE SplitFrom(s, sep, i + 1, cur \o CharAt(s, i))

\* str::split on a character, collected: the empty string gives one empty piece.
split(s, sep) == SplitFrom(s, sep, 1, "")

RECURSIVE WordsFrom(_, _, _)
\* The whitespace-separated words of s from position i on.
WordsFrom(s, i, cur) ==
    IF i > Len(s) THEN (IF cur = "" THEN <<>> ELSE <<cur>>)
    ELSE IF IsWhitespace(CharAt(s, i))
         THEN (IF cur = "" THEN <<>> ELSE <<cur>>) \o WordsFrom(s, i + 1, "")
         ELSE WordsFrom(s, i + 1, cur \o CharAt(s, i))

\* str::split_whitespace, collected: no word is empty.
split_whitespace(s) == WordsFrom(s, 1, "")

RECURSIVE join(_, _)
\* [String]::join
join(parts, sep) ==
    IF Len(parts) = 0 THEN ""
    ELSE IF Len(parts) = 1 THEN parts[1]
    ELSE parts[1] \o sep \o join(Tail(parts), sep)

RECURSIVE concat(_)
\* Iterator<Item = String>::collect::<String>()
concat(parts) == IF Len(parts) = 0 THEN "" ELSE parts[1] \o concat(Tail(parts))

RECURSIVE replace(_, _, _)
\* str::replace: the occurrences of the non-empty pat, left to right, not overlapping.
replace(s, pat, to) ==
    IF Len(s) = 0 THEN ""
    ELSE IF starts_with(s, pat)
         THEN to \o replace(SubSeq(s, Len(pat) + 1, Len(s)), pat, to)
         ELSE CharAt(s, 1) \o replace(SubSeq(s, 2, Len(s)), pat, to)

(***************************************************************************)
(* Naming and type conversion (the free functions at the end of main.rs).  *)
(***************************************************************************)

RECURSIVE JavaNamingFrom(_, _, _)
\* The while loop of java_to_rust_naming from character i on.
JavaNamingFrom(java_name, i, result) ==
    IF i > Len(java_name) THEN result
    ELSE LET c == CharAt(java_name, i) IN
         IF is_uppercase(c)
         THEN JavaNamingFrom(java_name, i + 1,
                  (IF result # "" THEN result \o "_" ELSE result) \o to_lowercase(c))
         ELSE JavaNamingFrom(java_name, i + 1, result \o c)

\* A variant of java_to_rust_naming that puts no underscore inside a run of
\* uppercase letters.
java_to_rust_naming_CollapsesRuns(java_name) ==
    concat([i \in 1..Len(java_name) |->
               LET c == CharAt(java_name, i) IN
               IF is_uppercase(c)
               THEN (IF i > 1 /\ ~is_uppercase(CharAt(java_name, i - 1)) THEN "_" ELSE "")
                       \o to_lowercase(c)
               ELSE c])

java_to_rust_naming(java_name) == JavaNamingFrom(java_name, 1, "")

RECURSIVE PascalSnakeFrom(_, _, _)
\* The while loop of pascal_to_snake_case from character i on.
PascalSnakeFrom(pascal_name, i, result) ==
    IF i > Len(pascal_name) THEN result
    ELSE LET c == CharAt(pascal_name, i) IN
         IF is_uppercase(c)
         THEN PascalSnakeFrom(pascal_name, i + 1,
                  (IF result # "" THEN result \o "_" ELSE result) \o to_lowercase(c))
         ELSE PascalSnakeFrom(pascal_name, i + 1, result \o c)

pascal_to_snake_case(pascal_name) == PascalSnakeFrom(pascal_name, 1, "")

\* The match on the element type of an array in convert_java_type_to_rust.
rust_base_type(base_type) ==
    CASE base_type = "String" -> "String"
      [] base_type = "int" -> "i32"
      [] base_type = "long" -> "i64"
      [] base_type = "short" -> "i16"
      [] base_type = "byte" -> "i8"
      [] base_type = "boolean" -> "bool"
      [] base_type = "float" -> "f32"
      [] base_type = "double" -> "f64"
      [] base_type = "char" -> "char"
      [] OTHER -> base_type

convert_java_type_to_rust(java_type_in) ==
    LET java_type == trim(java_type_in) IN
    IF ends_with(java_type, "[]")
    THEN "Vec<" \o rust_base_type(trim(trim_end_matches(java_type, "[]"))) \o ">"
    ELSE CASE java_type = "String" -> "&str"
           [] java_type = "int" -> "i32"
           [] java_type = "long" -> "i64"
           [] java_type = "short" -> "i16"
           [] java_type = "byte" -> "i8"
           [] java_type = "boolean" -> "bool"
           [] java_type = "float" -> "f32"
           [] java_type = "double" -> "f64"
           [] java_type = "char" -> "char"
           [] OTHER -> java_type

\* The words of one comma-separated segment, `final ` removed.
java_param_parts(param) ==
    split_whitespace(replace(trim(trim_end_matches(trim(param), ",")), "final ", ""))

\* A variant of java_param_is_some that keeps a segment of one word.
java_param_is_some_KeepsOneWord(param) ==
    trim(trim_end_matches(trim(param), ",")) # ""

\* Whether the closure of convert_java_params_to_rust gives Some for the segment.
java_param_is_some(param) ==
    /\ trim(trim_end_matches(trim(param), ",")) # ""
    /\ Len(java_param_parts(param)) >= 2

\* A variant of java_param_to_rust that puts a space, not a colon and a space,
\* between the name and the type.
java_param_to_rust_WithoutColon(param) ==
    LET parts == java_param_parts(param)
        var_name == trim_end_matches(parts[Len(parts)], ",")
        java_type == concat(SubSeq(parts, 1, Len(parts) - 1))
    IN java_to_rust_naming(var_name) \o " " \o convert_java_type_to_rust(java_type)

\* What the closure of convert_java_params_to_rust gives for a segment it keeps.
java_param_to_rust(param) ==
    LET parts == java_param_parts(param)
        var_name == trim_end_matches(parts[Len(parts)], ",")
        java_type == concat(SubSeq(parts, 1, Len(parts) - 1))
    IN java_to_rust_naming(var_name) \o ": " \o convert_java_type_to_rust(java_type)

convert_java_params_to_rust(java_params) ==
    LET kept == SelectSeq(split(java_params, ","), java_param_is_some)
    IN join([i \in 1..Len(kept) |-> java_param_to_rust(kept[i])], ", ")

\* A variant of capitalize that leaves the first character as it is.
capitalize_KeepsCase(word) == word

\* The closure of to_pascal_case: the first character in upper case, then the rest.
capitalize(word) ==
    IF word = "" THEN "" ELSE to_uppercase(CharAt(word, 1)) \o SubSeq(word, 2, Len(word))

to_pascal_case(snake_case) ==
    LET words == split(snake_case, "_")
    IN concat([i \in 1..Len(words) |-> capitalize(words[i])])

(***************************************************************************)
(* The parameter derivations of CodeGenerator.  self is the record of the  *)
(* form fields; every derivation reads self.function_params only.         *)
(***************************************************************************)

\* trimmed.split(':').map(|s| s.trim()).collect()
colon_parts(trimmed) ==
    LET raw == split(trimmed, ":") IN [i \in 1..Len(raw) |-> trim(raw[i])]

\* trimmed.split(':').next(), trimmed: the text before the first colon.
name_before_colon(trimmed) == trim(split(trimmed, ":")[1])

\* A variant of is_not_cb_param that keeps every segment.
is_not_cb_param_KeepsAll(param) == TRUE

\* The filter of clean_params: the segment is not the callback parameter.
is_not_cb_param(param) ==
    ~starts_with(trim(param), "cb:") /\ ~starts_with(trim(param), "cb :")

clean_params(params) ==
    LET cleaned == trim(trim_end_matches(trim(params), ","))
    IN join(SelectSeq(split(cleaned, ","), is_not_cb_param), ", ")

normalize_param_name(param_name, param_type) ==
    IF param_type = "ConversationType" \/ param_type = "DbConversationType"
    THEN "conv_type"
    ELSE param_name

\* The segments of the cleaned parameter string that are not blank, each trimmed.
trimmed_params(self) ==
    LET parts == split(clean_params(self.function_params), ",")
        kept == SelectSeq(parts, LAMBDA param : trim(param) # "")
    IN [i \in 1..Len(kept) |-> trim(kept[i])]

\* The parameters of the string as the derivations take them: the segments
\* that are not blank, in order, each split at its colons and trimmed.
param_pairs(params) ==
    LET parts == split(params, ",")
        kept == SelectSeq(parts, LAMBDA param : trim(param) # "")
    IN [i \in 1..Len(kept) |-> colon_parts(trim(kept[i]))]

\* The closure of normalize_params_for_request_builder on one trimmed segment.
request_builder_param(trimmed) ==
    LET parts == colon_parts(trimmed)
        given_type == trim(trim_end_matches(parts[2], ","))
        param_type == IF given_type = "String" THEN "&str" ELSE given_type
    IN IF Len(parts) # 2 THEN trimmed
       ELSE normalize_param_name(parts[1], param_type) \o ": " \o param_type

normalize_params_for_request_builder(self) ==
    LET ps == trimmed_params(self)
    IN join([i \in 1..Len(ps) |-> request_builder_param(ps[i])], ", ")

\* The closure of generate_struct_fields on a segment with exactly one colon.
struct_field(trimmed) ==
    LET parts == colon_parts(trimmed)
        param_type == IF parts[2] = "&str" THEN "String" ELSE parts[2]
    IN "    " \o normalize_param_name(parts[1], param_type) \o ": " \o param_type \o ","

generate_struct_fields(self) ==
    LET ps == SelectSeq(trimmed_params(self), LAMBDA t : Len(colon_parts(t)) = 2)
    IN IF clean_params(self.function_params) = "" THEN ""
       ELSE join([i \in 1..Len(ps) |-> struct_field(ps[i])], "\n")

\* The closure of generate_new_params on one trimmed segment.
new_param(trimmed) ==
    LET parts == colon_parts(trimmed)
    IN IF Len(parts) # 2 THEN trimmed
       ELSE normalize_param_name(parts[1], parts[2]) \o ": " \o parts[2]

generate_new_params(self) ==
    LET ps == trimmed_params(self)
    IN IF clean_params(self.function_params) = "" THEN ""
       ELSE join([i \in 1..Len(ps) |-> new_param(ps[i])], ", ")

\* The closure of generate_field_inits on a segment with exactly one colon.
field_init_of(trimmed) ==
    LET parts == colon_parts(trimmed)
        normalized_name == normalize_param_name(parts[1], parts[2])
    IN IF parts[2] = "&str"
       THEN normalized_name \o ": " \o normalized_name \o ".to_string()"
       ELSE normalized_name

generate_field_inits(self) ==
    LET ps == SelectSeq(trimmed_params(self), LAMBDA t : Len(colon_parts(t)) = 2)
    IN IF clean_params(self.function_params) = "" THEN ""
       ELSE join([i \in 1..Len(ps) |-> field_init_of(ps[i])], ", ")

\* The closure of extract_param_names (and of extract_param_names_only).
param_name_of(trimmed) ==
    LET parts == colon_parts(trimmed)
    IN IF Len(parts) # 2 THEN name_before_colon(trimmed)
       ELSE normalize_param_name(parts[1], trim(parts[2]))

extract_param_names(self) ==
    LET ps == trimmed_params(self)
    IN join([i \in 1..Len(ps) |-> param_name_of(ps[i])], ", ")

\* The closure of extract_param_names_only on one trimmed segment.
param_name_only_of(trimmed) ==
    LET parts == colon_parts(trimmed)
    IN IF Len(parts) # 2 THEN name_before_colon(trimmed)
       ELSE normalize_param_name(parts[1], parts[2])

extract_param_names_only(self) ==
    LET ps == trimmed_params(self)
    IN join([i \in 1..Len(ps) |-> param_name_only_of(ps[i])], ", ")

extract_param_names_for_call(self) ==
    LET ps == trimmed_params(self)
    IN join([i \in 1..Len(ps) |-> name_before_colon(ps[i])], ", ")

\* The closure of add_ref_to_str_params on one trimmed segment.
ref_param(trimmed) ==
    LET parts == colon_parts(trimmed)
        param_type == IF trim(parts[2]) = "String" THEN "&str" ELSE trim(parts[2])
    IN IF Len(parts) # 2 THEN trimmed
       ELSE normalize_param_name(parts[1], param_type) \o ": " \o param_type

add_ref_to_str_params(self) ==
    LET ps == trimmed_params(self)
    IN join([i \in 1..Len(ps) |-> ref_param(ps[i])], ", ")

generate_trace_params(self) ==
    LET ps == trimmed_params(self)
    IN join([i \in 1..Len(ps) |->
                "\"" \o name_before_colon(ps[i]) \o "\": " \o name_before_colon(ps[i])],
            ",\n            ")

\* The shadowing binding the three conversion helpers emit for a `: &str` segment.
to_string_binding(trimmed) ==
    "    let " \o name_before_colon(trimmed) \o " = "
        \o name_before_colon(trimmed) \o ".to_string();"

generate_str_to_string_conversions(self) ==
    LET ps == SelectSeq(trimmed_params(self), LAMBDA t : contains(t, ": &str"))
        conversions == [i \in 1..Len(ps) |-> to_string_binding(ps[i])]
    IN IF Len(conversions) = 0 THEN "" ELSE join(conversions, "\n") \o "\n"

generate_str_to_string_conversions_for_db_agent(self) ==
    LET ps == SelectSeq(trimmed_params(self), LAMBDA t : contains(t, ": &str"))
        conversions == [i \in 1..Len(ps) |-> to_string_binding(ps[i])]
    IN IF Len(conversions) = 0 THEN "" ELSE join(conversions, "\n") \o "\n"

generate_str_conversions_in_function_body(self) ==
    LET ps == SelectSeq(trimmed_params(self), LAMBDA t : contains(t, ": &str"))
        conversions == [i \in 1..Len(ps) |-> to_string_binding(ps[i])]
    IN IF Len(conversions) = 0 THEN "" ELSE join(conversions, "\n") \o "\n"

extract_param_names_with_ref(self) ==
    LET ps == trimmed_params(self)
    IN join([i \in 1..Len(ps) |->
                IF contains(ps[i], ": &str")
                THEN "&" \o name_before_colon(ps[i])
                ELSE name_before_colon(ps[i])], ", ")

extract_param_names_for_db_worker_call(self) ==
    LET ps == trimmed_params(self)
    IN join([i \in 1..Len(ps) |->
                IF contains(ps[i], ": &str")
                THEN name_before_colon(ps[i]) \o ".as_str()"
                ELSE name_before_colon(ps[i])], ", ")

generate_default_value_for_type(param_type) ==
    CASE param_type = "&str" -> "\"test\""
      [] param_type = "String" -> "\"test\".to_string()"
      [] param_type \in {"i32", "i64", "u32", "u64", "i8", "i16", "u8", "u16",
                         "usize", "isize"} -> "0"
      [] param_type \in {"f32", "f64"} -> "0.0"
      [] param_type = "bool" -> "false"
      [] param_type = "Vec<String>" -> "vec![]"
      [] param_type \in {"Vec<i32>", "Vec<i64>", "Vec<u32>", "Vec<u64>"} -> "vec![]"
      [] OTHER -> IF starts_with(param_type, "Vec<") THEN "vec![]"
                  ELSE IF starts_with(param_type, "Option<") THEN "None"
                  ELSE "Default::default()"

\* The closure of generate_test_param_definitions on a segment with one colon.
test_param_definition(trimmed) ==
    LET parts == split(trimmed, ":")
        param_name == trim(parts[1])
        param_type == trim(parts[2])
    IN "let " \o param_name \o ": " \o param_type \o " = "
           \o generate_default_value_for_type(param_type) \o ";"

generate_test_param_definitions(self) ==
    LET ps == SelectSeq(trimmed_params(self), LAMBDA t : Len(split(t, ":")) = 2)
        definitions == [i \in 1..Len(ps) |-> test_param_definition(ps[i])]
    IN IF clean_params(self.function_params) = "" THEN ""
       ELSE IF Len(definitions) = 0 THEN "" ELSE join(definitions, "\n        ")

(***************************************************************************)
(* The texts of the format! templates, each {} replaced by its argument.   *)
(***************************************************************************)

\* The format! text of main.rs lines 651 to 670.
engine_sync_database_text(rust_function_name, cleaned_params, cb_type, str_conversions, param_names_with_ref) ==
    "pub fn " \o rust_function_name \o "<CB>(&self, " \o cleaned_params \o ", cb: CB)\n" \o
    "where\n" \o
    "    CB: FnOnce(Result<" \o cb_type \o ", EngineError>) + Send + 'static,\n" \o
    "{\n" \o
    "    let engine = self.engine.clone();\n" \o
    "    let cb = self.cb_pool_once(cb);\n" \o
    str_conversions \o "\n" \o
    "    self.post(async move {\n" \o
    "        let ret = engine." \o rust_function_name \o "(" \o param_names_with_ref \o
    ").await;\n" \o
    "        cb(ret);\n" \o
    "    });\n" \o
    "}"

\* The format! text of main.rs lines 673 to 691.
engine_sync_network_text(rust_function_name, cleaned_params, cb_type, str_conversions, param_names_with_ref) ==
    "pub fn " \o rust_function_name \o "<CB>(&self, " \o cleaned_params \o ", cb: CB)\n" \o
    "where\n" \o
    "    CB: FnOnce(Result<" \o cb_type \o ", EngineError>) + Send + 'static,\n" \o
    "{\n" \o
    "    let engine = self.engine.clone();\n" \o
    "    let callback = self.cb_pool_once(cb);\n" \o
    str_conversions \o "\n" \o
    "    self.post(async move {\n" \o
    "        engine." \o rust_function_name \o "(" \o param_names_with_ref \o
    ", callback).await;\n" \o
    "    });\n" \o
    "}"

\* The format! text of main.rs lines 716 to 743.
engine_async_network_text(rust_function_name, params_with_ref, cb_type, ok_match_pattern, param_names) ==
    "pub async fn " \o rust_function_name \o "<CB>(&self, " \o params_with_ref \o
    ", cb: CB)\n" \o
    "where\n" \o
    "    CB: FnOnce(Result<" \o cb_type \o ", EngineError>) + Send + 'static,\n" \o
    "{\n" \o
    "    let trace_id = self.ctx.logger().generate_trace_id();\n" \o
    "    trace_i_json!(self.ctx.logger(), \"P-" \o rust_function_name \o "-T\", trace_id);\n" \o
    "    let logger = self.ctx.logger().clone();\n" \o
    "    let cb = move |ret: Result<" \o cb_type \o ", EngineError>| {\n" \o
    "        let str = match &ret {\n" \o
    "            " \o ok_match_pattern \o ",\n" \o
    "            Err(e) => e.to_string(),\n" \o
    "        };\n" \o
    "        trace_i_json!(logger, \"P-" \o rust_function_name \o
    "-R\", trace_id, \"result\", &str);\n" \o
    "        cb(ret);\n" \o
    "    };\n" \o
    "    bugtags::" \o rust_function_name \o "(&self.ctx, " \o param_names \o ", cb).await;\n" \o
    "}"

\* The format! text of main.rs lines 746 to 765.
engine_async_database_text(rust_function_name, params_with_ref, cb_type, param_names) ==
    "pub async fn " \o rust_function_name \o "(&self, " \o params_with_ref \o ") -> Result<" \o
    cb_type \o ", EngineError> {\n" \o
    "    let trace_id = self.ctx.logger().generate_trace_id();\n" \o
    "    trace_i_json!(self.ctx.logger(), \"P-" \o rust_function_name \o "-T\", trace_id);\n" \o
    "    let ret = bugtags::" \o rust_function_name \o "(&self.ctx, " \o param_names \o
    ").await;\n" \o
    "    let str = match &ret {\n" \o
    "        Ok(_) => \"\".to_string(),\n" \o
    "        Err(e) => e.to_string(),\n" \o
    "    };\n" \o
    "    trace_i_json!(self.ctx.logger(), \"P-" \o rust_function_name \o
    "-R\", trace_id, \"result\", str);\n" \o
    "    ret\n" \o
    "}"

\* The format! text of main.rs lines 790 to 805.
module_network_text(rust_function_name, params_with_ref, cb_type, build_params) ==
    "pub(crate) async fn " \o rust_function_name \o "<CB>(\n" \o
    "    ctx: &Arc<EngineContext>,\n" \o
    "    " \o params_with_ref \o ",\n" \o
    "    cb: CB,\n" \o
    ")\n" \o
    "where\n" \o
    "    CB: FnOnce(Result<" \o cb_type \o ", EngineError>) + Send + 'static,\n" \o
    "{\n" \o
    "    let query = ctx\n" \o
    "        .request_builder()\n" \o
    "        .build_" \o rust_function_name \o "_request(" \o build_params \o ");\n" \o
    "    ctx.send_query(query).await;\n" \o
    "}"

\* The format! text of main.rs lines 808 to 818.
module_database_text(rust_function_name, params_with_ref, cb_type, param_names) ==
    "pub(crate) async fn " \o rust_function_name \o "(\n" \o
    "    ctx: &Arc<EngineContext>,\n" \o
    "    " \o params_with_ref \o ",\n" \o
    ") -> Result<" \o cb_type \o ", EngineError> {\n" \o
    "    ctx.db_agent()\n" \o
    "        ." \o rust_function_name \o "(" \o param_names \o ")\n" \o
    "        .await\n" \o
    "}"

\* The format! text of main.rs lines 848 to 862.
request_builder_text(build_function_name, params_with_ref, cb_type, pb_request_name, request_name) ==
    "pub(crate) fn " \o build_function_name \o "<CB>(\n" \o
    "    &self,\n" \o
    "    " \o params_with_ref \o ",\n" \o
    "    cb: CB,\n" \o
    ") -> RmtpQuery\n" \o
    "where\n" \o
    "    CB: FnOnce(Result<" \o cb_type \o ", EngineError>) + Send + 'static,\n" \o
    "{\n" \o
    "    let mut pb_req = " \o pb_request_name \o "::new();\n" \o
    "    let req = " \o request_name \o "::new(pb_req, cb);\n" \o
    "    self.build_query(req.get_method(), \"\", req.get_qos(), Box::new(req))\n" \o
    "}"

\* The format! text of main.rs lines 953 to 1034.
request_struct_text(request_body_name, cb_type, struct_fields, new_params, field_init) ==
    "use crate::engine_context::EngineContext;\n" \o
    "use crate::engine_def::{EngineError};\n" \o
    "use crate::rmtp::request::request_trait::Request;\n" \o
    "use crate::rmtp::rmtp_def::RmtpQos;\n" \o
    "use async_trait::async_trait;\n" \o
    "use protobuf::Message;\n" \o
    "use rust_universal_logger::err;\n" \o
    "use std::sync::Arc;\n" \o
    "\n" \o
    "pub(crate) struct " \o request_body_name \o "<CB>\n" \o
    "where\n" \o
    "    CB: FnOnce(Result<" \o cb_type \o ", EngineError>) + Send + 'static,\n" \o
    "{\n" \o
    struct_fields \o "\n" \o
    "}\n" \o
    "\n" \o
    "impl<CB> " \o request_body_name \o "<CB>\n" \o
    "where\n" \o
    "    CB: FnOnce(Result<" \o cb_type \o ", EngineError>) + Send + 'static,\n" \o
    "{\n" \o
    "    pub(crate) fn new(" \o new_params \o ") -> Self {\n" \o
    "        " \o field_init \o "\n" \o
    "    }\n" \o
    "}\n" \o
    "\n" \o
    "#[async_trait]\n" \o
    "impl<CB> Request for " \o request_body_name \o "<CB>\n" \o
    "where\n" \o
    "    CB: FnOnce(Result<" \o cb_type \o ", EngineError>) + Send + 'static,\n" \o
    "{\n" \o
    "    fn get_method(&self) -> String {\n" \o
    "        \"\".to_string()\n" \o
    "    }\n" \o
    "\n" \o
    "    fn get_qos(&self) -> RmtpQos {\n" \o
    "        RmtpQos::QosAtLastOnce\n" \o
    "    }\n" \o
    "\n" \o
    "    async fn deal_with_response(\n" \o
    "        self: Box<Self>,\n" \o
    "        ctx: &Arc<EngineContext>,\n" \o
    "        code: EngineError,\n" \o
    "        timestamp: i64,\n" \o
    "        msg_uid: String,\n" \o
    "        pb_data: Option<Vec<u8>>,\n" \o
    "    ) {\n" \o
    "        if EngineError::Success != code {\n" \o
    "            (self.cb)(Err(code));\n" \o
    "            return;\n" \o
    "        }\n" \o
    "\n" \o
    "        let pb_data = match pb_data {\n" \o
    "            Some(pb_data) => pb_data,\n" \o
    "            None => return (self.cb)(Err(err!(EngineError::NetDataParserFailed))),\n" \o
    "        };\n" \o
    "\n" \o
    "        // if EngineError::Success == code {\n" \o
    "        //     (self.cb)(Ok(()));\n" \o
    "        // } else {\n" \o
    "        //     (self.cb)(Err(code));\n" \o
    "        // }\n" \o
    "        \n" \o
    "        // TODO: \\u{89e3}\\u{6790}\\u{54cd}\\u{5e94}\\u{6570}\\u{636e}\n" \o
    "        // let ret = ...;\n" \o
    "        // (self.cb)(Ok(ret));\n" \o
    "    }\n" \o
    "\n" \o
    "    fn get_pb_data(&self) -> Vec<u8> {\n" \o
    "        self.pb_req.write_to_bytes().unwrap_or_default()\n" \o
    "    }\n" \o
    "}"

\* The format! text of main.rs lines 1050 to 1078.
test_method_database_text(rust_function_name, param_section, param_names) ==
    "#[test]\n" \o
    "fn " \o rust_function_name \o "() {\n" \o
    "    SHARED_RUNTIME.block_on(async {\n" \o
    "        const ROOM_NAME: &str = \"test_room\";\n" \o
    "        let server_api = ServerApi::new();\n" \o
    "        if !server_api.is_chatroom_exist(ROOM_NAME).await {\n" \o
    "            server_api.create_chatroom(ROOM_NAME).await;\n" \o
    "        }\n" \o
    "        TESTER_A.connect().await.unwrap();\n" \o
    "        let engine = &TESTER_A.engine;\n" \o
    "        let (tx, rx) = oneshot::channel();\n" \o
    "        " \o param_section \o "let ret = engine." \o rust_function_name \o "(" \o
    param_names \o ").await;\n" \o
    "\n" \o
    "        println!(\"" \o rust_function_name \o ": {:?}\", ret);\n" \o
    "        assert!(ret.is_ok());\n" \o
    "        tx.send(()).unwrap();\n" \o
    "\n" \o
    "        match rx.await {\n" \o
    "            Ok(_) => {}\n" \o
    "            Err(e) => {\n" \o
    "                debug!(\"" \o rust_function_name \o " err: {:?}\", e);\n" \o
    "                assert!(false);\n" \o
    "            }\n" \o
    "        }\n" \o
    "    });\n" \o
    "}"

\* The format! text of main.rs lines 1089 to 1098.
test_call_no_params_text(rust_function_name, param_section) ==
    param_section \o "engine\n" \o
    "                ." \o rust_function_name \o "(|ret| {\n" \o
    "                    println!(\"" \o rust_function_name \o ": {:?}\", ret);\n" \o
    "                    assert!(ret.is_ok());\n" \o
    "                    tx.send(()).unwrap();\n" \o
    "                })\n" \o
    "                .await;"

\* The format! text of main.rs lines 1100 to 1109.
test_call_with_params_text(rust_function_name, param_names, param_section) ==
    param_section \o "engine\n" \o
    "                ." \o rust_function_name \o "(" \o param_names \o ", |ret| {\n" \o
    "                    println!(\"" \o rust_function_name \o ": {:?}\", ret);\n" \o
    "                    assert!(ret.is_ok());\n" \o
    "                    tx.send(()).unwrap();\n" \o
    "                })\n" \o
    "                .await;"

\* The format! text of main.rs lines 1112 to 1136.
test_method_network_text(rust_function_name, call_code) ==
    "#[test]\n" \o
    "fn " \o rust_function_name \o "() {\n" \o
    "    SHARED_RUNTIME.block_on(async {\n" \o
    "        const ROOM_NAME: &str = \"test_room\";\n" \o
    "        let server_api = ServerApi::new();\n" \o
    "        if !server_api.is_chatroom_exist(ROOM_NAME).await {\n" \o
    "            server_api.create_chatroom(ROOM_NAME).await;\n" \o
    "        }\n" \o
    "        TESTER_A.connect().await.unwrap();\n" \o
    "        let engine = &TESTER_A.engine;\n" \o
    "        let (tx, rx) = oneshot::channel();\n" \o
    "        " \o call_code \o "\n" \o
    "\n" \o
    "        match rx.await {\n" \o
    "            Ok(_) => {}\n" \o
    "            Err(e) => {\n" \o
    "                debug!(\"" \o rust_function_name \o " err: {:?}\", e);\n" \o
    "                assert!(false);\n" \o
    "            }\n" \o
    "        }\n" \o
    "    });\n" \o
    "}"

\* The format! text of main.rs lines 1517 to 1546.
db_agent_text(rust_function_name, params_with_ref, return_type, str_conversions, param_names_for_call) ==
    "pub async fn " \o rust_function_name \o "(\n" \o
    "    &self,\n" \o
    "    " \o params_with_ref \o ",\n" \o
    ") -> Result<" \o return_type \o ", EngineError> {\n" \o
    "    // 1. \\u{57fa}\\u{7840}\\u{53c2}\\u{6570}\\u{8f6c}\\u{5316}\\u{ff08}\\u{9700}\\u{8981}\\u{5c06}\\u{6570}\\u{636e}\\u{8f6c}\\u{4e3a} db \\u{6a21}\\u{5757}\\u{7684}\\u{7c7b}\\u{578b}\\u{ff09}\n" \o
    str_conversions \o "\n" \o
    "    // 2. \\u{521b}\\u{5efa}\\u{901a}\\u{9053}\\u{548c} db_worker\n" \o
    "    let (resp_tx, resp_rx) = oneshot::channel();\n" \o
    "    let db_worker_clone = self.db_worker.clone();\n" \o
    "\n" \o
    "    // 3. \\u{521b}\\u{5efa} task\\u{ff0c}\\u{8c03}\\u{7528} db_worker \\u{5bf9}\\u{5e94}\\u{65b9}\\u{6cd5}\\u{3002}\n" \o
    "    // task \\u{53ea}\\u{8d1f}\\u{8d23}\\u{8c03}\\u{7528}\\u{7b80}\\u{5355}\\u{7684}\\u{65b9}\\u{6cd5}\\u{ff0c}\\u{590d}\\u{6742}\\u{903b}\\u{8f91}\\u{632a}\\u{5230} db \\u{6a21}\\u{5757}\\u{5185}\n" \o
    "    let task = Box::pin(async move {\n" \o
    "        let db_worker = db_worker_clone.read().await;\n" \o
    "        let result = db_worker." \o rust_function_name \o "(" \o param_names_for_call \o
    ")\n" \o
    "            .await;\n" \o
    "        let _ = resp_tx.send(result);\n" \o
    "    });\n" \o
    "\n" \o
    "    // 4. \\u{53d1}\\u{4efb}\\u{52a1}\\u{7ed9} db \\u{6a21}\\u{5757}\\u{6267}\\u{884c}\n" \o
    "    self.execute(task, resp_rx).await\n" \o
    "}"

\* The format! text of main.rs lines 1560 to 1583.
db_worker_text(rust_function_name, params_with_ref, return_type, param_names) ==
    "pub async fn " \o rust_function_name \o "(\n" \o
    "    &self,\n" \o
    "    " \o params_with_ref \o ",\n" \o
    ") -> Result<" \o return_type \o ", DbError> {\n" \o
    "    log_db_i!(\"P-" \o rust_function_name \o "-T\");\n" \o
    "    let method_name = \"" \o rust_function_name \o "\";\n" \o
    "    let db_lock = self.db_sqlite_lock.read().await;\n" \o
    "    let db = db_lock\n" \o
    "        .as_ref()\n" \o
    "        .ok_or_else(|| self.callback_error(method_name, DbError::NotOpen))?;\n" \o
    "    let ret = db." \o rust_function_name \o "(" \o param_names \o ")\n" \o
    "        .await\n" \o
    "        .unwrap_or_else(|join_error| Err(DbErrorInfo::from_join_error(join_error)));\n" \o
    "    self.callback(method_name, ret)\n" \o
    "}"

\* The format! text of main.rs lines 1599 to 1630.
db_sqlite_text(rust_function_name, params_with_ref, return_type, str_conversions) ==
    "pub fn " \o rust_function_name \o "(\n" \o
    "    &self,\n" \o
    "    " \o params_with_ref \o ",\n" \o
    ") -> JoinHandle<Result<" \o return_type \o ", DbErrorInfo>> {\n" \o
    "    let db_lock_clone = self.db_lock.clone();\n" \o
    str_conversions \o "\n" \o
    "    spawn_blocking(move || {\n" \o
    "        let db = db_lock_clone\n" \o
    "                .read()\n" \o
    "                .map_err(|error| DbErrorInfo::from_lock(error))?;\n" \o
    "            let mut transaction_err_opt = None;\n" \o
    "            let transaction_ret = db.run_transaction(|_| {\n" \o
    "\n" \o
    "                if let Err(exp) = ret {\n" \o
    "                    transaction_err_opt = Some(DbErrorInfo::from(exp));\n" \o
    "                    return false;\n" \o
    "                }\n" \o
    "\n" \o
    "                return true; //\\u{8fd4}\\u{56de} false \\u{56de}\\u{6eda}\\u{6574}\\u{4e2a}\\u{4e8b}\\u{52a1}\n" \o
    "            });\n" \o
    "            if let Some(error) = transaction_err_opt {\n" \o
    "                return Err(error);\n" \o
    "            }\n" \o
    "            if let Err(exp) = transaction_ret {\n" \o
    "                return Err(DbErrorInfo::from(exp));\n" \o
    "            }\n" \o
    "            Ok(())\n" \o
    "    })\n" \o
    "}"

(***************************************************************************)
(* The nine generators.                                                    *)
(***************************************************************************)

\* `cb_type`: the return type of the form, the unit type when it is blank.
cb_type_of(self) ==
    IF self.callback_return_type = "" THEN "()" ELSE self.callback_return_type

\* `return_type` of the three database generators: bool when the form's is blank.
db_return_type_of(self) ==
    IF self.callback_return_type = "" THEN "bool" ELSE self.callback_return_type

generate_engine_sync_function(self, rust_function_name) ==
    CASE self.operation_type = "Database" ->
            engine_sync_database_text(rust_function_name,
                clean_params(self.function_params), cb_type_of(self),
                generate_str_to_string_conversions(self),
                extract_param_names_with_ref(self))
      [] self.operation_type = "Network" ->
            engine_sync_network_text(rust_function_name,
                clean_params(self.function_params), cb_type_of(self),
                generate_str_to_string_conversions(self),
                extract_param_names_with_ref(self))
      [] OTHER -> ""

generate_engine_async_function(self, rust_function_name) ==
    LET ok_match_pattern ==
            IF cb_type_of(self) = "()" THEN "Ok(()) => \"\".to_string()"
            ELSE "Ok(_) => \"\".to_string()"
    IN CASE self.operation_type = "Network" ->
               engine_async_network_text(rust_function_name,
                   add_ref_to_str_params(self), cb_type_of(self), ok_match_pattern,
                   extract_param_names(self))
         [] self.operation_type = "Database" ->
               engine_async_database_text(rust_function_name,
                   add_ref_to_str_params(self), cb_type_of(self),
                   extract_param_names(self))
         [] OTHER -> ""

generate_module_function(self, rust_function_name) ==
    LET param_names == extract_param_names(self)
        build_params == IF param_names = "" THEN "cb" ELSE param_names \o ", cb"
    IN CASE self.operation_type = "Network" ->
               module_network_text(rust_function_name, add_ref_to_str_params(self),
                   cb_type_of(self), build_params)
         [] self.operation_type = "Database" ->
               module_database_text(rust_function_name, add_ref_to_str_params(self),
                   cb_type_of(self), param_names)
         [] OTHER -> ""

\* generate_request_builder_function without the early return on an empty
\* request_body_name.
generate_request_builder_function_IgnoresBodyName(self, rust_function_name) ==
    request_builder_text("build_" \o rust_function_name \o "_request",
        normalize_params_for_request_builder(self), cb_type_of(self),
        "Pb" \o self.request_body_name, self.request_body_name)

generate_request_builder_function(self, rust_function_name) ==
    IF self.request_body_name = "" THEN ""
    ELSE request_builder_text("build_" \o rust_function_name \o "_request",
             normalize_params_for_request_builder(self), cb_type_of(self),
             "Pb" \o self.request_body_name, self.request_body_name)

\* A variant of generate_request_struct that embeds the parameters whatever
\* pass_params_to_request is.
generate_request_struct_AlwaysEmbeds(self) ==
    LET pb_request_name == "Pb" \o self.request_body_name
        extra_fields == generate_struct_fields(self)
        extra_new_params == generate_new_params(self)
        extra_field_inits == generate_field_inits(self)
        struct_fields ==
            IF extra_fields = ""
            THEN "    pb_req: " \o pb_request_name \o ",\n    cb: CB,"
            ELSE "    pb_req: " \o pb_request_name \o ",\n    cb: CB,\n" \o extra_fields
        new_params ==
            IF extra_new_params = ""
            THEN "pb_req: " \o pb_request_name \o ", cb: CB"
            ELSE "pb_req: " \o pb_request_name \o ", cb: CB, " \o extra_new_params
        field_init ==
            IF extra_field_inits = ""
            THEN "Self { pb_req, cb }"
            ELSE "Self { pb_req, cb, " \o extra_field_inits \o " }"
    IN request_struct_text(self.request_body_name, cb_type_of(self), struct_fields,
           new_params, field_init)

generate_request_struct(self) ==
    LET pb_request_name == "Pb" \o self.request_body_name
        extra_fields ==
            IF self.pass_params_to_request THEN generate_struct_fields(self) ELSE ""
        extra_new_params ==
            IF self.pass_params_to_request THEN generate_new_params(self) ELSE ""
        extra_field_inits ==
            IF self.pass_params_to_request THEN generate_field_inits(self) ELSE ""
        struct_fields ==
            IF extra_fields = ""
            THEN "    pb_req: " \o pb_request_name \o ",\n    cb: CB,"
            ELSE "    pb_req: " \o pb_request_name \o ",\n    cb: CB,\n" \o extra_fields
        new_params ==
            IF extra_new_params = ""
            THEN "pb_req: " \o pb_request_name \o ", cb: CB"
            ELSE "pb_req: " \o pb_request_name \o ", cb: CB, " \o extra_new_params
        field_init ==
            IF extra_field_inits = ""
            THEN "Self { pb_req, cb }"
            ELSE "Self { pb_req, cb, " \o extra_field_inits \o " }"
    IN request_struct_text(self.request_body_name, cb_type_of(self), struct_fields,
           new_params, field_init)

generate_test_method(self, rust_function_name) ==
    LET param_definitions == generate_test_param_definitions(self)
        param_names == extract_param_names_only(self)
        param_section ==
            IF param_definitions # "" THEN param_definitions \o "\n        " ELSE ""
        call_code ==
            IF param_names = ""
            THEN test_call_no_params_text(rust_function_name, param_section)
            ELSE test_call_with_params_text(rust_function_name, param_names,
                     param_section)
    IN CASE self.operation_type = "Database" ->
               test_method_database_text(rust_function_name, param_section, param_names)
         [] self.operation_type = "Network" ->
               test_method_network_text(rust_function_name, call_code)
         [] OTHER -> ""

generate_db_agent_function(self, rust_function_name) ==
    db_agent_text(rust_function_name, add_ref_to_str_params(self),
        db_return_type_of(self), generate_str_to_string_conversions_for_db_agent(self),
        extract_param_names_for_db_worker_call(self))

generate_db_worker_function(self, rust_function_name) ==
    db_worker_text(rust_function_name, add_ref_to_str_params(self),
        db_return_type_of(self), extract_param_names(self))

generate_db_sqlite_function(self, rust_function_name) ==
    db_sqlite_text(rust_function_name, add_ref_to_str_params(self),
        db_return_type_of(self), generate_str_conversions_in_function_body(self))

(***************************************************************************)
(* The state: the fields of struct CodeGenerator.  A text_editor::Content  *)
(* is modelled by the text it holds; operation_type is "Database",         *)
(* "Network" or "None".                                                    *)
(***************************************************************************)
VARIABLES project_path, function_name, function_params, callback_return_type,
          request_body_name, request_file_name, operation_type,
          pass_params_to_request, generate_db_functions,
          engine_sync_content, engine_async_content, module_content,
          request_builder_content, request_struct_content, test_method_content,
          db_agent_content, db_worker_content, db_sqlite_content,
          status_message

form == <<project_path, function_name, function_params, callback_return_type,
          request_body_name, request_file_name, operation_type,
          pass_params_to_request, generate_db_functions>>

artifacts == <<engine_sync_content, engine_async_content, module_content,
               request_builder_content, request_struct_content, test_method_content,
               db_agent_content, db_worker_content, db_sqlite_content>>

vars == <<form, artifacts, status_message>>

\* The fields of the form, as the record the generators take for self.
Self ==
    [project_path |-> project_path,
     request_file_name |-> request_file_name,
     function_name |-> function_name,
     function_params |-> function_params,
     callback_return_type |-> callback_return_type,
     request_body_name |-> request_body_name,
     operation_type |-> operation_type,
     pass_params_to_request |-> pass_params_to_request,
     generate_db_functions |-> generate_db_functions]

DefaultProjectPath == "/Users/dxd/workspace/gitlab2/Rust/JQK-rust-universal-imsdk"

\* The status messages, their characters outside ASCII spelled \u{hex}.
StatusEmptyName ==
    "\\u{9519}\\u{8bef}\\u{ff1a}\\u{51fd}\\u{6570}\\u{540d}\\u{79f0}\\u{4e0d}\\u{80fd}\\u{4e3a}\\u{7a7a}\\u{ff01}"

StatusEmptyParams ==
    "\\u{9519}\\u{8bef}\\u{ff1a}\\u{51fd}\\u{6570}\\u{53c2}\\u{6570}\\u{4e0d}\\u{80fd}\\u{4e3a}\\u{7a7a}\\u{ff01}"

StatusGenerated ==
    "\\u{4ee3}\\u{7801}\\u{751f}\\u{6210}\\u{6210}\\u{529f}\\u{ff01}"

StatusCleared ==
    "\\u{5df2}\\u{6e05}\\u{7a7a}\\u{6240}\\u{6709}\\u{8f93}\\u{5165}\\u{ff01}"

StatusCopyFailed == "\\u{590d}\\u{5236}\\u{5931}\\u{8d25}\\u{ff01}"

\* " ... copied to the clipboard!", the tail of the nine copy messages.
CopiedSuffix ==
    "\\u{5df2}\\u{590d}\\u{5236}\\u{5230}\\u{526a}\\u{8d34}\\u{677f}\\u{ff01}"

\* Nine text_editor::Content::new(): every artifact empty.
NoArtifacts == <<"", "", "", "", "", "", "", "", "">>

\* The nine contents hold the nine texts.
ArtifactsAre(texts) ==
    /\ engine_sync_content = texts[1]
    /\ engine_async_content = texts[2]
    /\ module_content = texts[3]
    /\ request_builder_content = texts[4]
    /\ request_struct_content = texts[5]
    /\ test_method_content = texts[6]
    /\ db_agent_content = texts[7]
    /\ db_worker_content = texts[8]
    /\ db_sqlite_content = texts[9]

\* A variant of SetArtifacts that leaves an editor alone when the new text is
\* empty.
SetArtifacts_KeepsWhenEmpty(texts) ==
    /\ engine_sync_content' = IF texts[1] = "" THEN engine_sync_content ELSE texts[1]
    /\ engine_async_content' = IF texts[2] = "" THEN engine_async_content ELSE texts[2]
    /\ module_content' = IF texts[3] = "" THEN module_content ELSE texts[3]
    /\ request_builder_content' =
           IF texts[4] = "" THEN request_builder_content ELSE texts[4]
    /\ request_struct_content' =
           IF texts[5] = "" THEN request_struct_content ELSE texts[5]
    /\ test_method_content' = IF texts[6] = "" THEN test_method_content ELSE texts[6]
    /\ db_agent_content' = IF texts[7] = "" THEN db_agent_content ELSE texts[7]
    /\ db_worker_content' = IF texts[8] = "" THEN db_worker_content ELSE texts[8]
    /\ db_sqlite_content' = IF texts[9] = "" THEN db_sqlite_content ELSE texts[9]

\* The nine assignments of Content::with_text at the end of GenerateCode.
SetArtifacts(texts) ==
    /\ engine_sync_content' = texts[1]
    /\ engine_async_content' = texts[2]
    /\ module_content' = texts[3]
    /\ request_builder_content' = texts[4]
    /\ request_struct_content' = texts[5]
    /\ test_method_content' = texts[6]
    /\ db_agent_content' = texts[7]
    /\ db_worker_content' = texts[8]
    /\ db_sqlite_content' = texts[9]

Init ==
    /\ project_path = DefaultProjectPath
    /\ function_name = ""
    /\ function_params = ""
    /\ callback_return_type = ""
    /\ request_body_name = ""
    /\ request_file_name = ""
    /\ operation_type = "Network"
    /\ pass_params_to_request = FALSE
    /\ generate_db_functions = FALSE
    /\ ArtifactsAre(NoArtifacts)
    /\ status_message = ""

\* A variant of looks_like_java that does not look for a colon in the segment.
looks_like_java_WithoutColonTest(params) ==
    \/ contains(params, "final ")
    \/ \E i \in 1..Len(split(params, ",")) :
          Len(split_whitespace(trim(split(params, ",")[i]))) >= 2

\* The condition of FunctionParamsChanged: the input looks like Java.
looks_like_java(params) ==
    \/ contains(params, "final ")
    \/ \E i \in 1..Len(split(params, ",")) :
          LET trimmed == trim(split(params, ",")[i])
          IN Len(split_whitespace(trimmed)) >= 2 /\ ~contains(trimmed, ":")

\* A variant of stored_params that converts every input.
stored_params_AlwaysConverts(params) == convert_java_params_to_rust(params)

\* A variant of stored_params that keeps the input when its conversion leaves
\* nothing.
stored_params_KeepsInputWhenEmpty(params) ==
    IF looks_like_java(params) /\ convert_java_params_to_rust(params) # ""
    THEN convert_java_params_to_rust(params)
    ELSE params

\* What FunctionParamsChanged stores for the input params.
stored_params(params) ==
    IF looks_like_java(params) THEN convert_java_params_to_rust(params) ELSE params

(***************************************************************************)
(* The inputs of the messages, drawn from small sets.                      *)
(***************************************************************************)
ProjectPaths == {DefaultProjectPath, "/tmp/imsdk"}

FunctionNames == {"", "setStatus"}

\* The empty string, a Rust-style string, and a Java-style string.
ParamStrings == {"", "status: i32", "int status"}

ReturnTypes == {"", "bool"}

RequestBodyNames == {"", "SetStatusRequest"}

\* The field emptied, and a name typed over the derived one.
RequestFileNames == {"", "my_request"}

OperationTypes == {"Database", "Network"}

(***************************************************************************)
(* CodeGenerator::update, one action per Message variant.                  *)
(***************************************************************************)

ProjectPathChanged(path) ==
    /\ project_path' = path
    /\ UNCHANGED <<function_name, function_params, callback_return_type,
                   request_body_name, request_file_name, operation_type,
                   pass_params_to_request, generate_db_functions,
                   artifacts, status_message>>

FunctionNameChanged(name) ==
    /\ function_name' = name
    /\ UNCHANGED <<project_path, function_params, callback_return_type,
                   request_body_name, request_file_name, operation_type,
                   pass_params_to_request, generate_db_functions,
                   artifacts, status_message>>

FunctionParamsChanged(params) ==
    /\ UNCHANGED <<project_path, function_name, callback_return_type,
                   request_body_name, request_file_name, operation_type,
                   pass_params_to_request, generate_db_functions,
                   artifacts, status_message>>
    /\ function_params' = stored_params(params)

CallbackReturnTypeChanged(return_type) ==
    /\ callback_return_type' = return_type
    /\ UNCHANGED <<project_path, function_name, function_params,
                   request_body_name, request_file_name, operation_type,
                   pass_params_to_request, generate_db_functions,
                   artifacts, status_message>>

RequestBodyNameChanged(name) ==
    /\ request_body_name' = name
    /\ UNCHANGED <<project_path, function_name, function_params,
                   callback_return_type, operation_type,
                   pass_params_to_request, generate_db_functions,
                   artifacts, status_message>>
    /\ request_file_name' = pascal_to_snake_case(name)

\* A variant of RequestFileNameChanged that derives the body name back from the
\* file name.
RequestFileNameChanged_TwoWay(name) ==
    /\ request_file_name' = name
    /\ request_body_name' = to_pascal_case(name)
    /\ UNCHANGED <<project_path, function_name, function_params,
                   callback_return_type, operation_type,
                   pass_params_to_request, generate_db_functions,
                   artifacts, status_message>>

RequestFileNameChanged(name) ==
    /\ request_file_name' = name
    /\ UNCHANGED <<project_path, function_name, function_params,
                   callback_return_type, request_body_name, operation_type,
                   pass_params_to_request, generate_db_functions,
                   artifacts, status_message>>

\* A variant of OperationTypeSelected that empties the editors, the texts they
\* hold having been generated for the other type.
OperationTypeSelected_ClearsArtifacts(op_type) ==
    /\ operation_type' = op_type
    /\ SetArtifacts(IF op_type = operation_type THEN artifacts ELSE NoArtifacts)
    /\ UNCHANGED <<project_path, function_name, function_params,
                   callback_return_type, request_body_name, request_file_name,
                   pass_params_to_request, generate_db_functions,
                   status_message>>

OperationTypeSelected(op_type) ==
    /\ operation_type' = op_type
    /\ UNCHANGED <<project_path, function_name, function_params,
                   callback_return_type, request_body_name, request_file_name,
                   pass_params_to_request, generate_db_functions,
                   artifacts, status_message>>

TogglePassParamsToRequest(enabled) ==
    /\ pass_params_to_request' = enabled
    /\ UNCHANGED <<project_path, function_name, function_params,
                   callback_return_type, request_body_name, request_file_name,
                   operation_type, generate_db_functions,
                   artifacts, status_message>>

ToggleGenerateDbFunctions(enabled) ==
    /\ generate_db_functions' = enabled
    /\ UNCHANGED <<project_path, function_name, function_params,
                   callback_return_type, request_body_name, request_file_name,
                   operation_type, pass_params_to_request,
                   artifacts, status_message>>

\* A variant of generated_artifacts that renders the request struct under
\* Network only.
generated_artifacts_StructUnderNetworkOnly(self) ==
    LET rust_function_name == java_to_rust_naming(self.function_name)
    IN << generate_engine_sync_function(self, rust_function_name),
          generate_engine_async_function(self, rust_function_name),
          generate_module_function(self, rust_function_name),
          IF self.operation_type = "Network"
          THEN generate_request_builder_function(self, rust_function_name)
          ELSE "",
          IF self.operation_type = "Network" /\ self.request_body_name # ""
          THEN generate_request_struct(self) ELSE "",
          generate_test_method(self, rust_function_name),
          IF self.generate_db_functions
          THEN generate_db_agent_function(self, rust_function_name) ELSE "",
          IF self.generate_db_functions
          THEN generate_db_worker_function(self, rust_function_name) ELSE "",
          IF self.generate_db_functions
          THEN generate_db_sqlite_function(self, rust_function_name) ELSE "" >>

\* A variant of generated_artifacts that renders the request builder whatever
\* the operation type.
generated_artifacts_BuilderAlways(self) ==
    LET rust_function_name == java_to_rust_naming(self.function_name)
    IN << generate_engine_sync_function(self, rust_function_name),
          generate_engine_async_function(self, rust_function_name),
          generate_module_function(self, rust_function_name),
          generate_request_builder_function(self, rust_function_name),
          IF self.request_body_name # "" THEN generate_request_struct(self) ELSE "",
          generate_test_method(self, rust_function_name),
          IF self.generate_db_functions
          THEN generate_db_agent_function(self, rust_function_name) ELSE "",
          IF self.generate_db_functions
          THEN generate_db_worker_function(self, rust_function_name) ELSE "",
          IF self.generate_db_functions
          THEN generate_db_sqlite_function(self, rust_function_name) ELSE "" >>

\* A variant of generated_artifacts that renders the three database artifacts
\* under Database only.
generated_artifacts_DbUnderDatabaseOnly(self) ==
    LET rust_function_name == java_to_rust_naming(self.function_name)
        with_db == self.generate_db_functions /\ self.operation_type = "Database"
    IN << generate_engine_sync_function(self, rust_function_name),
          generate_engine_async_function(self, rust_function_name),
          generate_module_function(self, rust_function_name),
          IF self.operation_type = "Network"
          THEN generate_request_builder_function(self, rust_function_name)
          ELSE "",
          IF self.request_body_name # "" THEN generate_request_struct(self) ELSE "",
          generate_test_method(self, rust_function_name),
          IF with_db THEN generate_db_agent_function(self, rust_function_name) ELSE "",
          IF with_db THEN generate_db_worker_function(self, rust_function_name) ELSE "",
          IF with_db THEN generate_db_sqlite_function(self, rust_function_name) ELSE "" >>

\* A variant of generated_artifacts that heads the request struct with the name
\* of the file it is meant for.
generated_artifacts_NamesRequestFile(self) ==
    LET rust_function_name == java_to_rust_naming(self.function_name)
    IN << generate_engine_sync_function(self, rust_function_name),
          generate_engine_async_function(self, rust_function_name),
          generate_module_function(self, rust_function_name),
          IF self.operation_type = "Network"
          THEN generate_request_builder_function(self, rust_function_name)
          ELSE "",
          IF self.request_body_name # ""
          THEN (IF self.request_file_name # ""
                THEN "// " \o self.request_file_name \o ".rs\n" ELSE "")
                  \o generate_request_struct(self)
          ELSE "",
          generate_test_method(self, rust_function_name),
          IF self.generate_db_functions
          THEN generate_db_agent_function(self, rust_function_name) ELSE "",
          IF self.generate_db_functions
          THEN generate_db_worker_function(self, rust_function_name) ELSE "",
          IF self.generate_db_functions
          THEN generate_db_sqlite_function(self, rust_function_name) ELSE "" >>

\* The nine texts a GenerateCode that passes both checks computes from self.
generated_artifacts(self) ==
    LET rust_function_name == java_to_rust_naming(self.function_name)
    IN << generate_engine_sync_function(self, rust_function_name),
          generate_engine_async_function(self, rust_function_name),
          generate_module_function(self, rust_function_name),
          IF self.operation_type = "Network"
          THEN generate_request_builder_function(self, rust_function_name)
          ELSE "",
          IF self.request_body_name # "" THEN generate_request_struct(self) ELSE "",
          generate_test_method(self, rust_function_name),
          IF self.generate_db_functions
          THEN generate_db_agent_function(self, rust_function_name) ELSE "",
          IF self.generate_db_functions
          THEN generate_db_worker_function(self, rust_function_name) ELSE "",
          IF self.generate_db_functions
          THEN generate_db_sqlite_function(self, rust_function_name) ELSE "" >>

\* A variant of GenerateCode that checks the parameters before the name.
GenerateCode_ParamsCheckedFirst ==
    IF function_params = ""
    THEN /\ status_message' = StatusEmptyParams
         /\ UNCHANGED <<form, artifacts>>
    ELSE IF function_name = ""
    THEN /\ status_message' = StatusEmptyName
         /\ UNCHANGED <<form, artifacts>>
    ELSE /\ SetArtifacts(generated_artifacts(Self))
         /\ status_message' = StatusGenerated
         /\ UNCHANGED form

\* A variant of GenerateCode that empties the editors when the parameters are
\* missing.
GenerateCode_ClearsOnEmptyParams ==
    IF function_name = ""
    THEN /\ status_message' = StatusEmptyName
         /\ UNCHANGED <<form, artifacts>>
    ELSE IF function_params = ""
    THEN /\ status_message' = StatusEmptyParams
         /\ SetArtifacts(NoArtifacts)
         /\ UNCHANGED form
    ELSE /\ SetArtifacts(generated_artifacts(Self))
         /\ status_message' = StatusGenerated
         /\ UNCHANGED form

\* A variant of GenerateCode that derives the file name from the body name again
\* at each generation.
GenerateCode_RederivesFileName ==
    IF function_name = ""
    THEN /\ status_message' = StatusEmptyName
         /\ UNCHANGED <<form, artifacts>>
    ELSE IF function_params = ""
    THEN /\ status_message' = StatusEmptyParams
         /\ UNCHANGED <<form, artifacts>>
    ELSE /\ SetArtifacts(generated_artifacts(Self))
         /\ status_message' = StatusGenerated
         /\ request_file_name' = pascal_to_snake_case(request_body_name)
         /\ UNCHANGED <<project_path, function_name, function_params,
                        callback_return_type, request_body_name, operation_type,
                        pass_params_to_request, generate_db_functions>>

\* A variant of GenerateCode that gives the empty-parameters error for a
\* parameter string without a colon.
GenerateCode_RejectsParamsWithoutColon ==
    IF function_name = ""
    THEN /\ status_message' = StatusEmptyName
         /\ UNCHANGED <<form, artifacts>>
    ELSE IF function_params = "" \/ ~contains(function_params, ":")
    THEN /\ status_message' = StatusEmptyParams
         /\ UNCHANGED <<form, artifacts>>
    ELSE /\ SetArtifacts(generated_artifacts(Self))
         /\ status_message' = StatusGenerated
         /\ UNCHANGED form

GenerateCode ==
    IF function_name = ""
    THEN /\ status_message' = StatusEmptyName
         /\ UNCHANGED <<form, artifacts>>
    ELSE IF function_params = ""
    THEN /\ status_message' = StatusEmptyParams
         /\ UNCHANGED <<form, artifacts>>
    ELSE /\ SetArtifacts(generated_artifacts(Self))
         /\ status_message' = StatusGenerated
         /\ UNCHANGED form

\* A variant of ClearAll that leaves the operation type as it is.
ClearAll_KeepsOperationType ==
    /\ function_name' = ""
    /\ function_params' = ""
    /\ callback_return_type' = ""
    /\ request_body_name' = ""
    /\ request_file_name' = ""
    /\ SetArtifacts(NoArtifacts)
    /\ status_message' = StatusCleared
    /\ UNCHANGED <<project_path, operation_type, pass_params_to_request,
                   generate_db_functions>>

ClearAll ==
    /\ function_name' = ""
    /\ function_params' = ""
    /\ callback_return_type' = ""
    /\ request_body_name' = ""
    /\ request_file_name' = ""
    /\ operation_type' = "Network"
    /\ SetArtifacts(NoArtifacts)
    /\ status_message' = StatusCleared
    /\ UNCHANGED <<project_path, pass_params_to_request, generate_db_functions>>

\* What the clipboard does at one copy: Clipboard::new() fails, set_text succeeds,
\* or set_text fails.
ClipboardOutcomes == {"unavailable", "copied", "failed"}

\* The arm shared by the nine Copy...ToClipboard messages: copied is the message
\* the arm stores when set_text succeeds.
CopyToClipboard(copied, outcome) ==
    /\ status_message' = CASE outcome = "copied" -> copied
                           [] outcome = "failed" -> StatusCopyFailed
                           [] OTHER -> status_message
    /\ UNCHANGED <<form, artifacts>>

CopyEngineSyncToClipboard(outcome) ==
    CopyToClipboard("engine_sync.rs " \o CopiedSuffix, outcome)

CopyEngineAsyncToClipboard(outcome) ==
    CopyToClipboard("engine_async.rs " \o CopiedSuffix, outcome)

CopyModuleToClipboard(outcome) ==
    CopyToClipboard("module \\u{6587}\\u{4ef6}" \o CopiedSuffix, outcome)

CopyRequestBuilderToClipboard(outcome) ==
    CopyToClipboard("request_builder \\u{6587}\\u{4ef6}" \o CopiedSuffix, outcome)

CopyRequestStructToClipboard(outcome) ==
    CopyToClipboard("\\u{8bf7}\\u{6c42}\\u{4f53}\\u{7ed3}\\u{6784}" \o CopiedSuffix, outcome)

CopyTestMethodToClipboard(outcome) ==
    CopyToClipboard("\\u{6d4b}\\u{8bd5}\\u{65b9}\\u{6cd5}" \o CopiedSuffix, outcome)

CopyDbAgentToClipboard(outcome) ==
    CopyToClipboard("db_agent.rs " \o CopiedSuffix, outcome)

CopyDbWorkerToClipboard(outcome) ==
    CopyToClipboard("db_worker.rs " \o CopiedSuffix, outcome)

CopyDbSqliteToClipboard(outcome) ==
    CopyToClipboard("db_sqlite.rs " \o CopiedSuffix, outcome)

\* Of a text_editor::Action, what matters here: it is no edit (a move, a selection,
\* a scroll), or it is an edit, named by the text it leaves in the editor.
NoEdit == [edit |-> FALSE]

EditTo(text) == [edit |-> TRUE, text |-> text]

\* text_editor::Content::perform
perform(content, action) == IF action.edit THEN action.text ELSE content

EngineSyncAction(action) ==
    /\ engine_sync_content' = perform(engine_sync_content, action)
    /\ UNCHANGED <<form, status_message,
                   engine_async_content, module_content, request_builder_content,
                   request_struct_content, test_method_content, db_agent_content,
                   db_worker_content, db_sqlite_content>>

EngineAsyncAction(action) ==
    /\ engine_async_content' = perform(engine_async_content, action)
    /\ UNCHANGED <<form, status_message,
                   engine_sync_content, module_content, request_builder_content,
                   request_struct_content, test_method_content, db_agent_content,
                   db_worker_content, db_sqlite_content>>

ModuleAction(action) ==
    /\ module_content' = perform(module_content, action)
    /\ UNCHANGED <<form, status_message,
                   engine_sync_content, engine_async_content, request_builder_content,
                   request_struct_content, test_method_content, db_agent_content,
                   db_worker_content, db_sqlite_content>>

RequestBuilderAction(action) ==
    /\ request_builder_content' = perform(request_builder_content, action)
    /\ UNCHANGED <<form, status_message,
                   engine_sync_content, engine_async_content, module_content,
                   request_struct_content, test_method_content, db_agent_content,
                   db_worker_content, db_sqlite_content>>

RequestStructAction(action) ==
    /\ request_struct_content' = perform(request_struct_content, action)
    /\ UNCHANGED <<form, status_message,
                   engine_sync_content, engine_async_content, module_content,
                   request_builder_content, test_method_content, db_agent_content,
                   db_worker_content, db_sqlite_content>>

TestMethodAction(action) ==
    /\ test_method_content' = perform(test_method_content, action)
    /\ UNCHANGED <<form, status_message,
                   engine_sync_content, engine_async_content, module_content,
                   request_builder_content, request_struct_content, db_agent_content,
                   db_worker_content, db_sqlite_content>>

DbAgentAction(action) ==
    /\ db_agent_content' = perform(db_agent_content, action)
    /\ UNCHANGED <<form, status_message,
                   engine_sync_content, engine_async_content, module_content,
                   request_builder_content, request_struct_content, test_method_content,
                   db_worker_content, db_sqlite_content>>

DbWorkerAction(action) ==
    /\ db_worker_content' = perform(db_worker_content, action)
    /\ UNCHANGED <<form, status_message,
                   engine_sync_content, engine_async_content, module_content,
                   request_builder_content, request_struct_content, test_method_content,
                   db_agent_content, db_sqlite_content>>

DbSqliteAction(action) ==
    /\ db_sqlite_content' = perform(db_sqlite_content, action)
    /\ UNCHANGED <<form, status_message,
                   engine_sync_content, engine_async_content, module_content,
                   request_builder_content, request_struct_content, test_method_content,
                   db_agent_content, db_worker_content>>

\* The text a user leaves in an editor by editing it.
EditedTexts == {"// edited by hand"}

EditorActions == {NoEdit} \cup {EditTo(text) : text \in EditedTexts}

\* The user edits at most MaxEdited of the nine artifacts between two generations.
MaxEdited == 1

\* The artifacts that hold a text made by hand.
EditedArtifacts == {i \in 1..9 : artifacts[i] \in EditedTexts}

\* The editor of artifact i may take the action within MaxEdited.
MayEdit(i, action) ==
    \/ ~action.edit
    \/ i \in EditedArtifacts
    \/ Cardinality(EditedArtifacts) < MaxEdited

\* The eleven messages of the form (the nine fields, GenerateCode and ClearAll),
\* the fields' new values drawn from the given sets.
FormMessage(paths, return_types, toggles) ==
    \/ \E path \in paths : ProjectPathChanged(path)
    \/ \E name \in FunctionNames : FunctionNameChanged(name)
    \/ \E params \in ParamStrings : FunctionParamsChanged(params)
    \/ \E return_type \in return_types : CallbackReturnTypeChanged(return_type)
    \/ \E name \in RequestBodyNames : RequestBodyNameChanged(name)
    \/ \E name \in RequestFileNames : RequestFileNameChanged(name)
    \/ \E op_type \in OperationTypes : OperationTypeSelected(op_type)
    \/ \E enabled \in toggles : TogglePassParamsToRequest(enabled)
    \/ \E enabled \in toggles : ToggleGenerateDbFunctions(enabled)
    \/ GenerateCode
    \/ ClearAll

\* The nine copy messages.
CopyMessage ==
    \/ \E outcome \in ClipboardOutcomes : CopyEngineSyncToClipboard(outcome)
    \/ \E outcome \in ClipboardOutcomes : CopyEngineAsyncToClipboard(outcome)
    \/ \E outcome \in ClipboardOutcomes : CopyModuleToClipboard(outcome)
    \/ \E outcome \in ClipboardOutcomes : CopyRequestBuilderToClipboard(outcome)
    \/ \E outcome \in ClipboardOutcomes : CopyRequestStructToClipboard(outcome)
    \/ \E outcome \in ClipboardOutcomes : CopyTestMethodToClipboard(outcome)
    \/ \E outcome \in ClipboardOutcomes : CopyDbAgentToClipboard(outcome)
    \/ \E outcome \in ClipboardOutcomes : CopyDbWorkerToClipboard(outcome)
    \/ \E outcome \in ClipboardOutcomes : CopyDbSqliteToClipboard(outcome)

\* The nine editor messages.
EditorMessage ==
    \/ \E action \in EditorActions : MayEdit(1, action) /\ EngineSyncAction(action)
    \/ \E action \in EditorActions : MayEdit(2, action) /\ EngineAsyncAction(action)
    \/ \E action \in EditorActions : MayEdit(3, action) /\ ModuleAction(action)
    \/ \E action \in EditorActions : MayEdit(4, action) /\ RequestBuilderAction(action)
    \/ \E action \in EditorActions : MayEdit(5, action) /\ RequestStructAction(action)
    \/ \E action \in EditorActions : MayEdit(6, action) /\ TestMethodAction(action)
    \/ \E action \in EditorActions : MayEdit(7, action) /\ DbAgentAction(action)
    \/ \E action \in EditorActions : MayEdit(8, action) /\ DbWorkerAction(action)
    \/ \E action \in EditorActions : MayEdit(9, action) /\ DbSqliteAction(action)

\* Every message of the program.  The user of this specification works on one
\* project, leaves the return type blank and the two check boxes unchecked.
Next ==
    \/ FormMessage({DefaultProjectPath}, {""}, {FALSE})
    \/ CopyMessage
    \/ EditorMessage

Spec == Init /\ [][Next]_vars

\* The messages of the form alone, every field taking every value: the user of
\* this specification neither copies an artifact nor edits one.
NextForm == FormMessage(ProjectPaths, ReturnTypes, BOOLEAN)

SpecForm == Init /\ [][NextForm]_vars

(***************************************************************************)
(* Generation from parameter strings of every shape.                       *)
(***************************************************************************)

\* Parameter strings as a user may type them: one whose conversion from Java
\* leaves nothing, one with a ConversationType, one with no colon, one with two
\* colons, one with stray commas and a type the code does not know, one with a
\* callback segment, and one with no space after the colon.
GenParamStrings ==
    {"final x", "conv: ConversationType", "status", "a: b: c",
     ",x: T<U>,, y: &str,", "a: i32, cb: MyCb", "x:&str"}

\* Fills the form, checks the boxes, generates and clears.
NextGen ==
    \/ \E name \in {"setStatus"} : FunctionNameChanged(name)
    \/ \E params \in GenParamStrings : FunctionParamsChanged(params)
    \/ \E name \in {"SetStatusRequest"} : RequestBodyNameChanged(name)
    \/ \E op_type \in OperationTypes : OperationTypeSelected(op_type)
    \/ \E enabled \in {TRUE} : TogglePassParamsToRequest(enabled)
    \/ \E enabled \in {TRUE} : ToggleGenerateDbFunctions(enabled)
    \/ GenerateCode
    \/ ClearAll

SpecGen == Init /\ [][NextGen]_vars

(***************************************************************************)
(* The conversions, applied to strings of every shape the form can send.   *)
(***************************************************************************)

\* Strings the rule of FunctionParamsChanged takes as they are: Rust-style
\* ones, a lone word, a name that starts with final, a callback parameter.
RustStyleParamStrings ==
    {"status: i32", "a: i32, b: &str", "a: i32,b: &str,", "name : &str",
     "status", "finalValue: i32", "cb: CB, a: i32", "a: i32, , cb: CB"}

\* Strings the rule takes as Java-style: with the word final, or with a segment
\* of two words and no colon (one of them beside a Rust-style segment, one a
\* Rust-style parameter whose type holds a comma).
JavaStyleParamStrings ==
    {"final x", "final String userId", "final String userId, int count",
     "int status", "int a, b, long c", "a: i32, int b", "f: fn(i32, i32) -> i32"}

\* One Java parameter of every type of the table, of types outside it, and of
\* array types.
JavaTypedParamStrings ==
    {"String a", "int a", "long a", "short a", "byte a", "boolean a",
     "float a", "double a", "char a", "Message a",
     "String[] a", "int[] a", "Message[] a", "String [] a", "int[][] a"}

\* Names in camel case and Pascal case, with a run of capitals, with a digit,
\* with underscores between and after capitals, and one already in snake case.
PureNames ==
    {"HTTPServer", "deleteUltraGroupMessages", "Set2Status", "A_B_",
     "already_snake"}

\* One Java parameter of type int for every name.
JavaNamedParamStrings == {"int " \o name : name \in PureNames}

\* Java-style strings whose conversion holds the word final: as a name, as a
\* type left by the removal of `final `, and after two removals.
JavaFinalParamStrings == {"int final", "finalfinal  x", "final int a,final int b"}

PureParamStrings ==
    RustStyleParamStrings \cup JavaStyleParamStrings
        \cup JavaTypedParamStrings \cup JavaNamedParamStrings
        \cup JavaFinalParamStrings

NextPure ==
    \/ \E params \in PureParamStrings : FunctionParamsChanged(params)
    \/ FunctionParamsChanged(function_params)
    \/ \E name \in PureNames : RequestBodyNameChanged(name)

SpecPure == Init /\ [][NextPure]_vars

(***************************************************************************)
(* Properties of CodeGenerator::update.                                    *)
(***************************************************************************)

\* A GenerateCode that passes both checks and changes something.  The conjuncts
\* between the two checks and GenerateCode follow from GenerateCode, but for the
\* third, which leaves out the steps every [][A]_vars allows; they come first so
\* that the nine texts are computed at the steps of GenerateCode alone.
GenerateCodeSucceeds ==
    /\ function_name # ""
    /\ function_params # ""
    /\ vars' # vars
    /\ status_message' = StatusGenerated
    /\ form' = form
    /\ GenerateCode

\* The texts of the nine editors are those a generation made of the form as it
\* is now, and the generation is the last thing the status line reports.
FreshlyGenerated ==
    /\ status_message = StatusGenerated
    /\ function_name # ""
    /\ function_params # ""
    /\ ArtifactsAre(generated_artifacts(Self))

\* A text that neither is empty nor was typed by hand: a generation made it.
IsGeneratedText(text) == text # "" /\ text \notin EditedTexts

\* C1: a GenerateCode received while function_name is empty sets the status to
\* the empty-name error and leaves all nine artifacts as they were.
C1_EmptyNameKeepsArtifacts ==
    [][(function_name = "" /\ GenerateCode)
          => (status_message' = StatusEmptyName /\ artifacts' = artifacts)]_vars

\* The empty-name error is on the status line while generated text and a text
\* typed by hand are still in the editors.
C1_Witness ==
    /\ status_message = StatusEmptyName
    /\ function_name = ""
    /\ IsGeneratedText(engine_sync_content)
    /\ module_content \in EditedTexts

\* C2: a GenerateCode received while function_name is not empty and
\* function_params is empty sets the status to the empty-parameters error and
\* leaves all nine artifacts as they were.
C2_EmptyParamsKeepsArtifacts ==
    [][(function_name # "" /\ function_params = "" /\ GenerateCode)
          => (status_message' = StatusEmptyParams /\ artifacts' = artifacts)]_vars

\* The empty-parameters error is on the status line while generated text and a
\* text typed by hand are still in the editors.
C2_Witness ==
    /\ status_message = StatusEmptyParams
    /\ function_name # ""
    /\ function_params = ""
    /\ IsGeneratedText(engine_async_content)
    /\ test_method_content \in EditedTexts

\* C3: ClearAll resets every field of the form but project_path to its initial
\* value (the two check boxes to false among them), empties all nine artifacts
\* and leaves project_path as it was.
C3_ClearAllResetsForm ==
    [][ClearAll
          => /\ function_name' = ""
             /\ function_params' = ""
             /\ callback_return_type' = ""
             /\ request_body_name' = ""
             /\ request_file_name' = ""
             /\ operation_type' = "Network"
             /\ pass_params_to_request' = FALSE
             /\ generate_db_functions' = FALSE
             /\ artifacts' = NoArtifacts
             /\ project_path' = project_path]_vars

\* C4, as the code has it: after a GenerateCode that passes both checks,
\* request_struct is not empty exactly when request_body_name is not empty,
\* whatever the operation type.
C4_StructFollowsBodyName ==
    [][GenerateCodeSucceeds
          => (request_struct_content' # "" <=> request_body_name # "")]_vars

\* A generation under Database with a body name has left a request struct.
C4_Witness ==
    /\ FreshlyGenerated
    /\ operation_type = "Database"
    /\ request_body_name # ""
    /\ request_struct_content # ""

\* C4, as stated: after a GenerateCode that passes both checks, request_struct
\* is not empty exactly when the operation type is Network and
\* request_body_name is not empty.
C4_StructUnderNetworkOnly ==
    [][GenerateCodeSucceeds
          => (request_struct_content' # ""
                 <=> (operation_type = "Network" /\ request_body_name # ""))]_vars

\* C5: after a GenerateCode that passes both checks under Database,
\* request_builder is empty.
C5_NoBuilderUnderDatabase ==
    [][(GenerateCodeSucceeds /\ operation_type = "Database")
          => request_builder_content' = ""]_vars

\* A generation under Database has left no request builder, with a body name
\* that gives one under Network.
C5_Witness ==
    /\ FreshlyGenerated
    /\ operation_type = "Database"
    /\ request_body_name # ""
    /\ request_builder_content = ""
    /\ generate_request_builder_function(Self, java_to_rust_naming(function_name)) # ""

\* C6: after a GenerateCode that passes both checks, db_agent, db_worker and
\* db_sqlite are all three not empty when generate_db_functions is set and all
\* three empty when it is not, under Database and under Network alike.
C6_DbArtifactsFollowFlag ==
    [][GenerateCodeSucceeds
          => IF generate_db_functions
             THEN /\ db_agent_content' # ""
                  /\ db_worker_content' # ""
                  /\ db_sqlite_content' # ""
             ELSE /\ db_agent_content' = ""
                  /\ db_worker_content' = ""
                  /\ db_sqlite_content' = ""]_vars

\* A generation under Network with the flag set has left the three database
\* artifacts.
C6_Witness ==
    /\ FreshlyGenerated
    /\ operation_type = "Network"
    /\ generate_db_functions
    /\ db_agent_content # ""
    /\ db_worker_content # ""
    /\ db_sqlite_content # ""

\* C7: a GenerateCode that passes both checks replaces all nine artifacts by the
\* render of the form as it is; what the editors held before, text typed by hand
\* included, has no part in the result, and the form is left as it was.
C7_GenerateReplacesAll ==
    [][GenerateCodeSucceeds
          => /\ artifacts' = generated_artifacts(Self)
             /\ \A i \in 1..9 : artifacts'[i] \notin EditedTexts
             /\ form' = form]_vars

\* After a generation, a text typed by hand is in an editor the form as it is
\* now gives another text: the next generation is to replace it.
C7_Witness ==
    /\ status_message = StatusGenerated
    /\ function_name # ""
    /\ function_params # ""
    /\ request_builder_content \in EditedTexts
    /\ operation_type = "Database"
    /\ IsGeneratedText(request_struct_content)
    /\ request_body_name = ""

\* The messages that set request_file_name, and the one that sets operation_type.
\* Where a property below asks vars' # vars of a step before it asks which
\* message the step is, it leaves out only steps that [][A]_vars allows anyway.
SomeRequestFileNameChanged ==
    \E name \in RequestFileNames : RequestFileNameChanged(name)

SomeRequestBodyNameChanged ==
    \E name \in RequestBodyNames : RequestBodyNameChanged(name)

SomeOperationTypeSelected ==
    \E op_type \in OperationTypes : OperationTypeSelected(op_type)

\* C8, as the code has it: request_file_name changes at a RequestFileNameChanged,
\* at a RequestBodyNameChanged, which sets it to the name derived from the new
\* body name, and at a ClearAll, and at no other message.
C8_FileNameKeptButForBodyName ==
    [][/\ request_file_name' # request_file_name
          => (SomeRequestFileNameChanged \/ SomeRequestBodyNameChanged \/ ClearAll)
       /\ (vars' # vars /\ SomeRequestBodyNameChanged)
          => request_file_name' = pascal_to_snake_case(request_body_name')]_vars

\* The file name typed by hand has stayed through a generation, beside a body
\* name that derives another one.
C8_Witness ==
    /\ request_file_name = "my_request"
    /\ request_body_name = "SetStatusRequest"
    /\ FreshlyGenerated

\* C8, as stated: once a RequestFileNameChanged has set request_file_name to x,
\* it stays x across every later message, RequestBodyNameChanged included, until
\* another RequestFileNameChanged or a ClearAll.
C8_FileNameKept ==
    [][(request_file_name = "my_request" /\ request_file_name' # "my_request")
          => (SomeRequestFileNameChanged \/ ClearAll)]_vars

\* C9: RequestBodyNameChanged(n) sets request_body_name to n and
\* request_file_name to pascal_to_snake_case(n), SetStatusRequest giving
\* set_status_request; RequestFileNameChanged(x) sets request_file_name to x and
\* changes nothing else, request_body_name least of all.
C9_OneWayDerivation ==
    [][/\ \A n \in RequestBodyNames :
             (vars' # vars /\ RequestBodyNameChanged(n))
                => /\ request_body_name' = n
                   /\ request_file_name' = pascal_to_snake_case(n)
                   /\ n = "SetStatusRequest" => request_file_name' = "set_status_request"
       /\ \A x \in RequestFileNames :
             RequestFileNameChanged(x)
                => /\ request_file_name' = x
                   /\ request_body_name' = request_body_name
                   /\ artifacts' = artifacts
                   /\ status_message' = status_message]_vars

\* The body name is as it was set while the file name was emptied by hand.
C9_Witness ==
    /\ request_body_name = "SetStatusRequest"
    /\ request_file_name = ""

\* C10: operation_type is always Database or Network, never none; it is Network
\* in the initial state and after every ClearAll, and otherwise the type of the
\* latest OperationTypeSelected.
C10_OperationTypeSet ==
    /\ operation_type = "Network"
    /\ [](operation_type \in {"Database", "Network"})
    /\ [][/\ ClearAll => operation_type' = "Network"
          /\ \A op_type \in OperationTypes :
                OperationTypeSelected(op_type) => operation_type' = op_type
          /\ operation_type' # operation_type
                => (ClearAll \/ SomeOperationTypeSelected)]_vars

\* Database was selected, and a ClearAll since has not happened: the form is
\* filled and the status line is not that of ClearAll.
C10_Witness ==
    /\ operation_type = "Database"
    /\ function_name # ""
    /\ status_message # StatusCleared

(***************************************************************************)
(* Properties of the checks and the parsing of the parameter string.       *)
(***************************************************************************)

\* The condition of the second early return of GenerateCode: there is a name and
\* the stored parameter string is empty.
RejectsEmptyParams == function_name # "" /\ function_params = ""

\* C11, as the code has it: GenerateCode checks the stored parameter string, which
\* is the string typed unless it looked like Java and was converted.  With a
\* name, GenerateCode gives the empty-parameters error exactly when the stored
\* string is empty; `final x`, which is not empty, is stored as the empty string,
\* and a string that does not look like Java is stored as it was typed.
C11_CheckOnStoredParams ==
    [][/\ (function_name # "" /\ vars' # vars /\ form' = form /\ GenerateCode)
          => (status_message' = StatusEmptyParams <=> function_params = "")
       /\ (vars' # vars /\ FunctionParamsChanged("final x"))
          => (function_params' = "" /\ (function_name # "" => RejectsEmptyParams'))
       /\ \A p \in GenParamStrings \ {"final x"} :
             (vars' # vars /\ FunctionParamsChanged(p)) => function_params' = p]_vars

\* After a generation, a string typed into the parameter field has left the
\* stored string empty, and GenerateCode has given the empty-parameters error.
C11_Witness ==
    /\ status_message = StatusEmptyParams
    /\ RejectsEmptyParams
    /\ IsGeneratedText(engine_sync_content)

\* C11, as stated: after a FunctionParamsChanged that carried a string that is
\* not empty, with a name in the form, GenerateCode does not give the
\* empty-parameters error.
C11_CheckOnTypedParams ==
    [][\A p \in GenParamStrings :
          (p # "" /\ function_name # "" /\ FunctionParamsChanged(p))
             => ~RejectsEmptyParams']_vars

\* C12: with a name and a stored parameter string that are not empty, however
\* malformed the string (no colon, several colons, stray commas, unknown
\* types), GenerateCode ends with the success status and all nine artifacts
\* replaced by the render of the form, the four that depend on no flag and on no
\* other field not empty.  (A step of a generator that cannot be evaluated, as
\* an index past the end of parts, would stop the evaluation of GenerateCode.)
C12_GenerationCannotFail ==
    [][(function_name # "" /\ function_params # "" /\ vars' # vars
          /\ form' = form /\ GenerateCode)
         => /\ status_message' = StatusGenerated
            /\ artifacts' = generated_artifacts(Self)
            /\ engine_sync_content' # ""
            /\ engine_async_content' # ""
            /\ module_content' # ""
            /\ test_method_content' # ""]_vars

\* A generation has succeeded on the string with stray commas and an unknown
\* type, with both boxes checked and a body name: all nine artifacts are there.
C12_Witness ==
    /\ FreshlyGenerated
    /\ function_params = ",x: T<U>,, y: &str,"
    /\ \A i \in 1..9 : artifacts[i] # ""

\* The name occurs in the text as a whole name: the occurrence is not the
\* start of the longer name that normalize_param_name gives (name "_type").
mentions_name(text, name) ==
    \E i \in 1..(Len(text) - Len(name) + 1) :
        /\ SubSeq(text, i, i + Len(name) - 1) = name
        /\ SubSeq(text, i + Len(name), i + Len(name)) # "_"

\* C13: a parameter of type ConversationType, entered as
\* "conv: ConversationType", appears as conv_type in every derived list of
\* every artifact: after a successful generation no artifact holds the entered
\* name conv in a declaration, a call list or a local definition.
C13_ConvTypeEverywhere ==
    [][(function_params = "conv: ConversationType" /\ GenerateCodeSucceeds)
          => \A i \in 1..9 : ~mentions_name(artifacts'[i], "conv")]_vars

(***************************************************************************)
(* Properties of the result type of the generated functions.              *)
(***************************************************************************)

\* C14: when callback_return_type is blank, each generator that emits a result
\* type emits the unit type in its place: after a successful generation every
\* non-empty text among engine_sync, engine_async, module, request_builder and
\* request_struct carries Result<(), EngineError>, and the db_agent, db_worker
\* and db_sqlite texts carry Result<(), ...> with their error types.
C14_BlankReturnTypeIsUnit ==
    [][(callback_return_type = "" /\ GenerateCodeSucceeds)
          => /\ \A i \in 1..5 :
                   artifacts'[i] # "" => contains(artifacts'[i], "Result<(), EngineError>")
             /\ db_agent_content' # ""
                   => contains(db_agent_content', "Result<(), EngineError>")
             /\ db_worker_content' # ""
                   => contains(db_worker_content', "Result<(), DbError>")
             /\ db_sqlite_content' # ""
                   => contains(db_sqlite_content', "Result<(), DbErrorInfo>")]_vars

(***************************************************************************)
(* Properties of the request builder.                                     *)
(***************************************************************************)

\* C20: after every successful GenerateCode with operation_type Network, the
\* request_builder text is non-empty exactly when request_body_name is
\* non-empty, and it then contains build_set_status_request, the name built
\* from the function name setStatus.
C20_BuilderNeedsBodyName ==
    [][(operation_type = "Network" /\ GenerateCodeSucceeds)
          => /\ request_builder_content' # "" <=> request_body_name # ""
             /\ request_body_name # ""
                   => contains(request_builder_content', "build_set_status_request")]_vars

\* A generation under Network with no request body name: there is no builder,
\* while the engine function of the same generation is there.
C20_Witness ==
    /\ FreshlyGenerated
    /\ operation_type = "Network"
    /\ request_body_name = ""
    /\ request_builder_content = ""
    /\ contains(engine_async_content, "set_status")

\* C20 as stated: under Network the builder is there whether or not
\* request_body_name is empty.
C20_BuilderUnderNetworkAlways ==
    [][(operation_type = "Network" /\ GenerateCodeSucceeds)
          => /\ request_builder_content' # ""
             /\ contains(request_builder_content', "build_set_status_request")]_vars

(***************************************************************************)
(* Properties of the conversions.                                          *)
(***************************************************************************)

\* C15: FunctionParamsChanged(p) takes the whole of p as Java-style exactly
\* when p holds "final " or some comma-separated segment of p has two words or
\* more and no colon; it then stores convert_java_params_to_rust(p), which is
\* another string than p, and in every other case it stores p as it is.
C15_JavaStyleRule ==
    [][/\ \A p \in JavaStyleParamStrings :
             (vars' # vars /\ FunctionParamsChanged(p))
                => /\ function_params' = convert_java_params_to_rust(p)
                   /\ function_params' # p
       /\ \A p \in RustStyleParamStrings :
             (vars' # vars /\ FunctionParamsChanged(p)) => function_params' = p]_vars

\* A string with a Rust-style and a Java-style segment was converted as a
\* whole: the Rust-style segment went through the Java conversion too.
C15_Witness == function_params = "i32: a:, b: i32"

\* C16: submitting the stored function_params again through
\* FunctionParamsChanged leaves it unchanged, and for a stored Rust-style
\* string clean_params applied to its own output gives the same ordered
\* (name, type) pairs as applied once.
C16_NormalizationIdempotent ==
    [][/\ FunctionParamsChanged(function_params) => function_params' = function_params
       /\ (function_params' # function_params
              /\ function_params' \in RustStyleParamStrings)
             => param_pairs(clean_params(clean_params(function_params')))
                   = param_pairs(clean_params(function_params'))]_vars

\* A stored Rust-style string of two parameters: clean_params gives another
\* text the second time than the first (a space more after the comma), with
\* the same two pairs.
C16_Witness ==
    /\ function_params = "a: i32, b: &str"
    /\ stored_params(function_params) = function_params
    /\ clean_params(function_params) = "a: i32,  b: &str"
    /\ clean_params(clean_params(function_params)) # clean_params(function_params)
    /\ param_pairs(clean_params(function_params)) = << <<"a", "i32">>, <<"b", "&str">> >>

\* C17: java_to_rust_naming gives, for each uppercase letter, an underscore
\* (when something was given before it) and the letter in lower case, and every
\* other character as it is, runs of uppercase letters not collapsed; and
\* pascal_to_snake_case gives the same.  A parameter named name is stored under
\* the snake-case name written out here, and a request body named name gives
\* the file name of the same text.
C17_SnakeCaseNaming ==
    [][LET snake_name ==
               [name \in PureNames |->
                   CASE name = "HTTPServer" -> "h_t_t_p_server"
                     [] name = "deleteUltraGroupMessages" -> "delete_ultra_group_messages"
                     [] name = "Set2Status" -> "set2_status"
                     [] name = "A_B_" -> "a__b_"
                     [] name = "already_snake" -> "already_snake"]
       IN \A name \in PureNames :
             /\ (vars' # vars /\ FunctionParamsChanged("int " \o name))
                   => function_params' = snake_name[name] \o ": i32"
             /\ (vars' # vars /\ RequestBodyNameChanged(name))
                   => request_file_name' = snake_name[name]]_vars

\* Both functions were applied to names with capitals: one gave the name of a
\* stored parameter, the other a file name.
C17_Witness ==
    /\ function_params = "h_t_t_p_server: i32"
    /\ request_body_name = "deleteUltraGroupMessages"
    /\ request_file_name = "delete_ultra_group_messages"

\* A PascalCase identifier: the first character an uppercase letter, every
\* character a letter or a digit.
is_pascal_identifier(x) ==
    /\ x # ""
    /\ is_uppercase(CharAt(x, 1))
    /\ \A i \in 1..Len(x) :
          CharAt(x, i) \in UpperSet \cup LowerSet
              \cup {"0", "1", "2", "3", "4", "5", "6", "7", "8", "9"}

C19_TypeTable ==
    [][LET rust_type ==
               [p \in JavaTypedParamStrings |->
                   CASE p = "String a" -> "&str"
                     [] p = "int a" -> "i32"
                     [] p = "long a" -> "i64"
                     [] p = "short a" -> "i16"
                     [] p = "byte a" -> "i8"
                     [] p = "boolean a" -> "bool"
                     [] p = "float a" -> "f32"
                     [] p = "double a" -> "f64"
                     [] p = "char a" -> "char"
                     [] p = "Message a" -> "Message"
                     [] p = "String[] a" -> "Vec<String>"
                     [] p = "int[] a" -> "Vec<i32>"
                     [] p = "Message[] a" -> "Vec<Message>"
                     [] p = "String [] a" -> "Vec<String>"
                     [] p = "int[][] a" -> "Vec<Vec<i32>>"]
       IN \A p \in JavaTypedParamStrings :
             (vars' # vars /\ FunctionParamsChanged(p))
                => function_params' = "a: " \o rust_type[p]]_vars

\* C21: convert_java_params_to_rust takes the comma-separated segments one by
\* one and in order: final is stripped, the last word is the variable name,
\* the words before it, concatenated, are the Java type, and the segment gives
\* <snake-case name>: <mapped type>; a segment of one word is dropped; the
\* results are joined with ", ".  Each Java-style string is stored as the text
\* written out here.
C21_JavaParamsConversion ==
    [][LET rust_params ==
               [p \in JavaStyleParamStrings \cup {"String [] a"} |->
                   CASE p = "final x" -> ""
                     [] p = "final String userId" -> "user_id: &str"
                     [] p = "final String userId, int count"
                           -> "user_id: &str, count: i32"
                     [] p = "int status" -> "status: i32"
                     [] p = "int a, b, long c" -> "a: i32, c: i64"
                     [] p = "a: i32, int b" -> "i32: a:, b: i32"
                     [] p = "f: fn(i32, i32) -> i32" -> "fn(i32: f:, i32: i32)->"
                     [] p = "String [] a" -> "a: Vec<String>"]
       IN \A p \in DOMAIN rust_params :
             (vars' # vars /\ FunctionParamsChanged(p))
                => function_params' = rust_params[p]]_vars

\* A string of two Java segments, final on the first, was converted.
C21_Witness == function_params = "user_id: &str, count: i32"

(***************************************************************************)
(* Properties of the derived lists.                                        *)
(***************************************************************************)

\* C22: clean_params removes the cb segment of the parameter string and keeps
\* the other parameters, in order, name and type unchanged; after a successful
\* generation from "a: i32, cb: MyCb" no artifact holds the callback type
\* MyCb of the input, and the engine function declares a: i32 followed by the
\* callback of its template.
C22_CallbackFilteredOut ==
    [][(function_params = "a: i32, cb: MyCb" /\ GenerateCodeSucceeds)
          => /\ clean_params(function_params) = "a: i32"
             /\ param_pairs(clean_params(function_params)) = << <<"a", "i32">> >>
             /\ \A i \in 1..9 : ~contains(artifacts'[i], "MyCb")
             /\ contains(engine_sync_content', "(&self, a: i32, cb: CB)")]_vars

\* A generation was made from the string with the callback segment.
C22_Witness ==
    /\ FreshlyGenerated
    /\ function_params = "a: i32, cb: MyCb"
    /\ contains(engine_sync_content, "a: i32, cb: CB")

\* C23: for every parameter of declared type &str, and for no other, the
\* engine_sync, db_agent and db_sqlite texts hold the binding
\* let <name> = <name>.to_string(); and these are the parameters that the
\* struct fields hold as String.  Of the parameter strings generated from, y of
\* ",x: T<U>,, y: &str," and x of "x:&str" are declared &str.
C23_StrParamsRebound ==
    [][GenerateCodeSucceeds
          => /\ \A text \in {engine_sync_content', db_agent_content', db_sqlite_content'} :
                   text # ""
                      => /\ contains(text, "    let y = y.to_string();\n")
                               <=> function_params = ",x: T<U>,, y: &str,"
                         /\ contains(text, "    let x = x.to_string();\n")
                               <=> function_params = "x:&str"
             /\ (pass_params_to_request /\ request_struct_content' # "")
                   => /\ contains(request_struct_content', "    y: String,")
                            <=> function_params = ",x: T<U>,, y: &str,"
                      /\ contains(request_struct_content', "    x: String,")
                            <=> function_params = "x:&str"]_vars

(***************************************************************************)
(* Properties of the request struct.                                       *)
(***************************************************************************)

\* C24: the request struct of a successful generation holds embedded parameter
\* fields, extra constructor parameters and extra field initializers only when
\* pass_params_to_request is set; when it is unset the struct holds exactly
\* pb_req and cb, new takes exactly pb_req and cb, and the initializer is
\* Self { pb_req, cb }, whatever the parameter string; when it is set, the
\* parameter a of "a: i32, cb: MyCb" is embedded in all three places.
C24_EmbeddedOnlyWhenSet ==
    [][(request_body_name # "" /\ GenerateCodeSucceeds)
          => /\ ~pass_params_to_request
                   => /\ contains(request_struct_content',
                             "{\n    pb_req: PbSetStatusRequest,\n    cb: CB,\n}\n")
                      /\ contains(request_struct_content',
                             "fn new(pb_req: PbSetStatusRequest, cb: CB) -> Self {\n"
                                \o "        Self { pb_req, cb }\n")
             /\ (pass_params_to_request /\ function_params = "a: i32, cb: MyCb")
                   => /\ contains(request_struct_content',
                             "{\n    pb_req: PbSetStatusRequest,\n    cb: CB,\n    a: i32,\n}\n")
                      /\ contains(request_struct_content',
                             "fn new(pb_req: PbSetStatusRequest, cb: CB, a: i32) -> Self {\n"
                                \o "        Self { pb_req, cb, a }\n")]_vars

\* A request struct was generated from a parameter string with a parameter
\* while pass_params_to_request was unset.
C24_Witness ==
    /\ FreshlyGenerated
    /\ ~pass_params_to_request
    /\ function_params = "a: i32, cb: MyCb"
    /\ contains(request_struct_content, "Self { pb_req, cb }")

(***************************************************************************)
(* Properties of the test method.                                          *)
(***************************************************************************)

\* C25: under Network the test method declares one local
\* let <name>: <type> = <default>; for every parameter, in order, with the
\* default of its type, and then calls the engine function with exactly the
\* declared names, in order, followed by the callback closure: every name in
\* the call is a declared local, for the parameter of type ConversationType
\* too, under whichever of its two names it is declared.
C25_TestCallsDeclaredLocals ==
    [][(operation_type = "Network" /\ GenerateCodeSucceeds)
          => /\ function_params = ",x: T<U>,, y: &str,"
                   => contains(test_method_content',
                          "        let x: T<U> = Default::default();\n"
                             \o "        let y: &str = \"test\";\n"
                             \o "        engine\n                .set_status(x, y, |ret| {")
             /\ function_params = "a: i32, cb: MyCb"
                   => contains(test_method_content',
                          "        let a: i32 = 0;\n"
                             \o "        engine\n                .set_status(a, |ret| {")
             /\ function_params = "conv: ConversationType"
                   => \E name \in {"conv", "conv_type"} :
                         contains(test_method_content',
                             "        let " \o name
                                \o ": ConversationType = Default::default();\n"
                                \o "        engine\n                .set_status("
                                \o name \o ", |ret| {")]_vars

\* C26: the request builder and the request struct of a successful generation
\* under Network with a request body name agree, for both values of
\* pass_params_to_request: the builder calls SetStatusRequest::new with the two
\* arguments pb_req and cb, and the new of the struct declares exactly these
\* two parameters.
C26_BuilderCallMatchesNew ==
    [][(operation_type = "Network" /\ request_body_name # "" /\ GenerateCodeSucceeds)
          => /\ contains(request_builder_content',
                    "    let req = SetStatusRequest::new(pb_req, cb);\n")
             /\ contains(request_struct_content',
                    "fn new(pb_req: PbSetStatusRequest, cb: CB) -> Self {")]_vars

\* C27: with pass_params_to_request set, the struct fields, the constructor
\* parameters and the field initializers of the request struct hold the same
\* parameters, in the same order, for every parameter string generated from:
\* two for ",x: T<U>,, y: &str,", one for "a: i32, cb: MyCb", and none in any
\* of the three for "status" and "a: b: c", which have no segment with exactly
\* one colon.
C27_StructListsAgree ==
    [][(pass_params_to_request /\ request_body_name # "" /\ GenerateCodeSucceeds)
          => /\ function_params = ",x: T<U>,, y: &str,"
                   => /\ contains(request_struct_content',
                             "    cb: CB,\n    x: T<U>,\n    y: String,\n}\n")
                      /\ contains(request_struct_content',
                             "cb: CB, x: T<U>, y: &str) -> Self {\n"
                                \o "        Self { pb_req, cb, x, y: y.to_string() }\n")
             /\ function_params = "a: i32, cb: MyCb"
                   => /\ contains(request_struct_content', "    cb: CB,\n    a: i32,\n}\n")
                      /\ contains(request_struct_content',
                             "cb: CB, a: i32) -> Self {\n"
                                \o "        Self { pb_req, cb, a }\n")
             /\ function_params \in {"status", "a: b: c"}
                   => /\ contains(request_struct_content', "    cb: CB,\n}\n")
                      /\ contains(request_struct_content',
                             "cb: CB) -> Self {\n        Self { pb_req, cb }\n")]_vars

\* C28: only generation, clearing and direct editing change an artifact.  Each
\* of the nine form-field messages, each copy message and a GenerateCode that
\* fails a check leaves all nine artifacts as they were; a copy message leaves
\* the form as it was too, so that it changes the status line at most; and an
\* editor message leaves the form, the status line and the other eight
\* artifacts as they were.
C28_FrameOfUpdate ==
    [][LET FormFieldMessage ==
               \/ \E path \in ProjectPaths : ProjectPathChanged(path)
               \/ \E name \in FunctionNames : FunctionNameChanged(name)
               \/ \E params \in ParamStrings : FunctionParamsChanged(params)
               \/ \E return_type \in ReturnTypes :
                      CallbackReturnTypeChanged(return_type)
               \/ \E name \in RequestBodyNames : RequestBodyNameChanged(name)
               \/ \E name \in RequestFileNames : RequestFileNameChanged(name)
               \/ \E op_type \in OperationTypes : OperationTypeSelected(op_type)
               \/ \E enabled \in BOOLEAN : TogglePassParamsToRequest(enabled)
               \/ \E enabled \in BOOLEAN : ToggleGenerateDbFunctions(enabled)
           FailedGenerateCode ==
               (function_name = "" \/ function_params = "") /\ GenerateCode
           OnlyArtifact(i) ==
               /\ form' = form
               /\ status_message' = status_message
               /\ \A j \in (1..9) \ {i} : artifacts'[j] = artifacts[j]
       IN  /\ FormFieldMessage => artifacts' = artifacts
           /\ FailedGenerateCode => artifacts' = artifacts
           /\ CopyMessage => (artifacts' = artifacts /\ form' = form)
           /\ (\E action \in EditorActions : EngineSyncAction(action))
                 => OnlyArtifact(1)
           /\ (\E action \in EditorActions : EngineAsyncAction(action))
                 => OnlyArtifact(2)
           /\ (\E action \in EditorActions : ModuleAction(action))
                 => OnlyArtifact(3)
           /\ (\E action \in EditorActions : RequestBuilderAction(action))
                 => OnlyArtifact(4)
           /\ (\E action \in EditorActions : RequestStructAction(action))
                 => OnlyArtifact(5)
           /\ (\E action \in EditorActions : TestMethodAction(action))
                 => OnlyArtifact(6)
           /\ (\E action \in EditorActions : DbAgentAction(action))
                 => OnlyArtifact(7)
           /\ (\E action \in EditorActions : DbWorkerAction(action))
                 => OnlyArtifact(8)
           /\ (\E action \in EditorActions : DbSqliteAction(action))
                 => OnlyArtifact(9)]_vars

\* After a generation under Network the operation type was set to Database, the
\* module text was typed over by hand and the request builder was copied: the
\* builder, which a generation under Database leaves empty, still holds the
\* generated text, and the form still holds what was typed.
C28_Witness ==
    /\ status_message = "request_builder \\u{6587}\\u{4ef6}" \o CopiedSuffix
    /\ operation_type = "Database"
    /\ IsGeneratedText(request_builder_content)
    /\ IsGeneratedText(engine_sync_content)
    /\ module_content \in EditedTexts
    /\ function_name = "setStatus"
    /\ request_file_name = "my_request"

\* C29: the string FunctionParamsChanged stores is never itself taken as
\* Java-style, whichever input it was stored for, a Java-style one included:
\* sending the stored function_params through FunctionParamsChanged again stores
\* the same string.
C29_StoredParamsNotJavaStyle ==
    /\ ~looks_like_java(function_params)
    /\ stored_params(function_params) = function_params

\* The conversion of "finalfinal  x" is stored: it holds the word final, left
\* as the type by the removal of `final `, and no `final ` with a space.
C29_Witness == function_params = "x: final"

\* C30: what GenerateCode produces does not depend on project_path or
\* request_file_name.  Whatever the two fields hold, the status it sets and, when
\* it passes both checks, the nine artifacts are those of the form that agrees on
\* the seven other fields and holds the initial project_path and an empty
\* request_file_name; so two forms that agree on the seven fields get the same
\* nine artifacts and the same status.
C30_ArtifactsIgnorePathAndFileName ==
    [][(form' = form /\ vars' # vars /\ GenerateCode)
          => LET self == [Self EXCEPT !.project_path = DefaultProjectPath,
                                      !.request_file_name = ""]
             IN  IF self.function_name = ""
                 THEN status_message' = StatusEmptyName
                 ELSE IF self.function_params = ""
                 THEN status_message' = StatusEmptyParams
                 ELSE /\ status_message' = StatusGenerated
                      /\ artifacts' = generated_artifacts(self)]_vars

\* A generation was made while the form held another project path than the
\* initial one and a request file name typed by hand, which is not the one
\* derived from the request body name.
C30_Witness ==
    /\ FreshlyGenerated
    /\ project_path = "/tmp/imsdk"
    /\ request_file_name = "my_request"
    /\ request_body_name = "SetStatusRequest"
    /\ request_struct_content # ""

====
